---- MODULE Spec2Model ----
(***************************************************************************)
(* OpenPRD backend: the key vault (api-keys.ts, crypto.ts), the provider   *)
(* registry (ai-providers.ts), the connectivity prober                     *)
(* (list-provider-models.ts, test-connection.ts) and the generation        *)
(* pipeline (generate.ts), over the relational store of the first          *)
(* migration.                                                              *)
(*                                                                         *)
(* Text is a sequence of one-character strings.  A row of a table is a     *)
(* record of the columns the handlers read or write; a table is the        *)
(* sequence of its rows in insertion order, so that "ORDER BY created_at   *)
(* DESC LIMIT 1" is the last matching row.  A nullable text column holds    *)
(* None or Some(text); a NULL identifier is 0 (BIGSERIAL starts at 1).     *)
(* An absent (undefined, null) string argument is the empty text, which    *)
(* the handlers' "!value" tests treat alike.                               *)
(***************************************************************************)
EXTENDS Integers, Sequences, FiniteSets, TLC

VARIABLES
    users,            \* users: the set of ids with a row
    api_keys,         \* api_keys rows
    prds,             \* prds rows
    sections,         \* sections rows
    generation_logs,  \* generation_logs rows
    system_prompts,   \* system_prompts rows
    rnd,              \* number of randomBytes() draws made so far
    inv,              \* per request slot: the handler invocation in progress
    ops,              \* number of invocations started
    maxOps            \* number of invocations the behaviour may start

tables == <<users, api_keys, prds, sections, generation_logs, system_prompts>>
vars == <<users, api_keys, prds, sections, generation_logs, system_prompts, rnd, inv, ops,
          maxOps>>

(***************************************************************************)
(* Bounds of the model.                                                    *)
(***************************************************************************)
MaxGenerations == 1   \* invocations started in a behaviour of the pipeline
MaxVaultOps == 3      \* invocations started in a behaviour of the key vault
MaxProberOps == 2     \* invocations started in a behaviour of the prober
MaxKeyLen == 5        \* longest API key passed to saveApiKey
ContextSlack == 5     \* characters below and above a context budget that are tried
MaxLines == 3         \* lines of a document given to parseSections
MaxParses == 1        \* parseSections calls in a behaviour
MaxNamings == 1       \* generations in a behaviour of SpecNaming
MaxRaceOps == 2       \* invocations in a behaviour of SpecRace
MaxPlainLen == 3      \* code units of a key given to encryptApiKey
MaxCryptoOps == 1     \* encryptions in a behaviour of SpecCrypto
MaxPromptOps == 1     \* generations in a behaviour of SpecPrompt
MaxSelectorOps == 3   \* requests sent in a behaviour of SpecSelector

None == <<>>
Some(x) == <<x>>

(***************************************************************************)
(* Sequence helpers.                                                       *)
(***************************************************************************)
RECURSIVE Flatten(_)
Flatten(ss) == IF ss = <<>> THEN <<>> ELSE Head(ss) \o Flatten(Tail(ss))

Last(s) == s[Len(s)]

\* String.prototype.slice(-n): the last n characters, the whole text when shorter.
SliceLast(s, n) == IF Len(s) <= n THEN s ELSE SubSeq(s, Len(s) - n + 1, Len(s))

\* t occurs in s as a contiguous run of characters.
Contains(s, t) ==
    \E i \in 1..(Len(s) - Len(t) + 1) : SubSeq(s, i, i + Len(t) - 1) = t

(***************************************************************************)
(* crypto.ts.  The cipher is modelled symbolically: a ciphertext is an     *)
(* opaque term built from the derived key, the IV and the plaintext; the   *)
(* authentication tag verifies only under the key and IV that made it.     *)
(* randomBytes() never repeats a value: each draw is the next number.      *)
(***************************************************************************)
\* A text is a sequence of UTF-16 code units.  The units that matter here:
\* the two halves of a surrogate pair (U+1F600) and the replacement character.
HighSurrogate == "<D83D>"

LowSurrogate == "<DE00>"

ReplacementChar == "<FFFD>"

\* Buffer.from(text, 'utf8'): a surrogate pair is four bytes, a surrogate
\* without its other half is encoded as U+FFFD; the byte of any other unit is
\* written as the unit itself.
RECURSIVE utf8Encode(_)
utf8Encode(text) ==
    IF text = <<>> THEN <<>>
    ELSE IF Len(text) >= 2 /\ text[1] = HighSurrogate /\ text[2] = LowSurrogate
    THEN <<"F0", "9F", "98", "80">> \o utf8Encode(SubSeq(text, 3, Len(text)))
    ELSE IF text[1] \in {HighSurrogate, LowSurrogate, ReplacementChar}
    THEN <<"EF", "BF", "BD">> \o utf8Encode(Tail(text))
    ELSE <<text[1]>> \o utf8Encode(Tail(text))

\* buffer.toString('utf8')
RECURSIVE utf8Decode(_)
utf8Decode(bytes) ==
    IF bytes = <<>> THEN <<>>
    ELSE IF Len(bytes) >= 4 /\ SubSeq(bytes, 1, 4) = <<"F0", "9F", "98", "80">>
    THEN <<HighSurrogate, LowSurrogate>> \o utf8Decode(SubSeq(bytes, 5, Len(bytes)))
    ELSE IF Len(bytes) >= 3 /\ SubSeq(bytes, 1, 3) = <<"EF", "BF", "BD">>
    THEN <<ReplacementChar>> \o utf8Decode(SubSeq(bytes, 4, Len(bytes)))
    ELSE IF bytes[1] \in {"F0", "9F", "98", "80", "EF", "BF", "BD"}
    THEN <<ReplacementChar>> \o utf8Decode(Tail(bytes))
    ELSE <<bytes[1]>> \o utf8Decode(Tail(bytes))

\* pbkdf2Sync(password, salt, ...): the password string is taken as UTF-8.
deriveKey(password, salt) == <<"pbkdf2", utf8Encode(password), salt>>

\* The ciphertext of the bytes pt; pt is what the key and the IV make of it.
GcmCipher(key, iv, plaintext) == [c |-> "aes-256-gcm", key |-> key, iv |-> iv, pt |-> plaintext]

GcmTag(key, iv, ciphertext) == <<"tag", key, iv, ciphertext>>

\* salt and iv are the two randomBytes() draws of the call; the result is the
\* combined buffer, by its four parts.
encryptApiKey(apiKey, userSecret, salt, iv) ==
    LET key == deriveKey(userSecret, salt)
        encrypted == GcmCipher(key, iv, utf8Encode(apiKey))
        tag == GcmTag(key, iv, encrypted)
    IN  <<salt, iv, tag, encrypted>>

\* A decryption that takes the parts of the buffer at the wrong offsets.
decryptApiKeyMisaligned(encryptedData, userSecret) ==
    LET key == deriveKey(userSecret, encryptedData[2])
    IN  IF encryptedData[3] = GcmTag(key, encryptedData[1], encryptedData[4])
        THEN [ok |-> TRUE, value |-> utf8Decode(encryptedData[4].pt)]
        ELSE [ok |-> FALSE, value |-> <<>>]

\* A decryption without setAuthTag() and final(): what update() gives.
decryptApiKeyUnverified(encryptedData, userSecret) ==
    [ok |-> TRUE, value |-> utf8Decode(encryptedData[4].pt)]

\* The result of decipher.final(): the plaintext, or a thrown error when the
\* tag does not verify.
decryptApiKey(encryptedData, userSecret) ==
    LET salt == encryptedData[1]
        iv == encryptedData[2]
        tag == encryptedData[3]
        encrypted == encryptedData[4]
        key == deriveKey(userSecret, salt)
    IN  IF tag = GcmTag(key, iv, encrypted)
        THEN [ok |-> TRUE, value |-> utf8Decode(encrypted.pt)]
        ELSE [ok |-> FALSE, value |-> <<>>]

\* A secret that is the same in every call.
generateUserSecretFixed(n) == <<"secret", "0">>

\* The n-th randomBytes(32).toString('hex').
generateUserSecret(n) == <<"secret", ToString(n)>>

getKeyHint(apiKey) == <<".", ".", ".">> \o SliceLast(apiKey, 4)

(***************************************************************************)
(* ai-providers.ts: the provider registry.  Costs are left out: no handler *)
(* branches on them.                                                       *)
(***************************************************************************)
NoModelList == [authMethod |-> "none", responseFormat |-> "none"]

AI_PROVIDERS ==
    [ openai |->
        [ name |-> "OpenAI", hasModelList |-> TRUE,
          modelList |-> [authMethod |-> "Bearer", responseFormat |-> "openai"],
          models |-> << [name |-> "gpt-4o", contextWindow |-> 128000],
                        [name |-> "gpt-4o-mini", contextWindow |-> 128000],
                        [name |-> "gpt-4-turbo", contextWindow |-> 128000] >> ],
      anthropic |->
        [ name |-> "Anthropic", hasModelList |-> TRUE,
          modelList |-> [authMethod |-> "x-api-key", responseFormat |-> "anthropic"],
          models |-> << [name |-> "claude-3-5-sonnet-20241022", contextWindow |-> 200000],
                        [name |-> "claude-3-haiku-20240307", contextWindow |-> 200000] >> ],
      google |->
        [ name |-> "Google", hasModelList |-> TRUE,
          modelList |-> [authMethod |-> "google-api-key", responseFormat |-> "google"],
          models |-> << [name |-> "gemini-1.5-pro-latest", contextWindow |-> 2000000],
                        [name |-> "gemini-1.5-flash-latest", contextWindow |-> 1000000] >> ],
      openrouter |->
        [ name |-> "OpenRouter", hasModelList |-> TRUE,
          modelList |-> [authMethod |-> "Bearer", responseFormat |-> "openrouter"],
          models |-> << >> ],
      deepseek |->
        [ name |-> "DeepSeek", hasModelList |-> TRUE,
          modelList |-> [authMethod |-> "Bearer", responseFormat |-> "deepseek"],
          models |-> << [name |-> "deepseek-chat", contextWindow |-> 128000],
                        [name |-> "deepseek-coder", contextWindow |-> 128000] >> ],
      moonshot |->
        [ name |-> "Moonshot.ai", hasModelList |-> TRUE,
          modelList |-> [authMethod |-> "Bearer", responseFormat |-> "moonshot"],
          models |-> << [name |-> "moonshot-v1-8k", contextWindow |-> 8000],
                        [name |-> "moonshot-v1-32k", contextWindow |-> 32000],
                        [name |-> "moonshot-v1-128k", contextWindow |-> 128000] >> ],
      zai |->
        [ name |-> "Z.ai", hasModelList |-> FALSE,
          modelList |-> NoModelList,
          models |-> << [name |-> "glm-4.5", contextWindow |-> 128000],
                        [name |-> "glm-4-32b-0414-128k", contextWindow |-> 128000] >> ] ]

\* AI_PROVIDERS is a plain object literal, so AI_PROVIDERS[key] also finds what
\* Object.prototype holds under that key (functions, with none of the fields
\* of a ProviderInfo).
ObjectPrototypeKeys ==
    { "constructor", "toString", "toLocaleString", "valueOf", "hasOwnProperty",
      "isPrototypeOf", "propertyIsEnumerable", "__proto__" }

\* AI_PROVIDERS[provider]: "own" is a registry entry, "inherited" a truthy
\* value that is no ProviderInfo, "undefined" the falsy miss.
ProviderLookup(provider) ==
    IF provider \in DOMAIN AI_PROVIDERS THEN "own"
    ELSE IF provider \in ObjectPrototypeKeys THEN "inherited"
    ELSE "undefined"

\* providerInfo.models.find(m => m.name === modelName) || null, as the sequence
\* of the matches' first (empty: null).
FindModel(provider, modelName) ==
    LET ms == AI_PROVIDERS[provider].models
        hit == { i \in 1..Len(ms) : ms[i].name = modelName }
    IN  IF hit = {} THEN <<>>
        ELSE << ms[CHOOSE i \in hit : \A j \in hit : i <= j] >>

\* Math.ceil(text.length / 4), on the length of the text.
estimateTokens(length) == (length + 3) \div 4

(***************************************************************************)
(* Errors and results of a handler.  An APIError carries its code; any     *)
(* other exception ("Error", "TypeError", a failed statement's "DbError")  *)
(* is no APIError.  A message is the sequence of its parts.                *)
(***************************************************************************)
APIError(code, msg) == [api |-> TRUE, code |-> code, msg |-> msg]

JsError(name, msg) == [api |-> FALSE, code |-> name, msg |-> msg]

NoError == [api |-> FALSE, code |-> "none", msg |-> <<>>]

Returned(value) == [status |-> "ok", err |-> NoError, value |-> value]

Raised(err) == [status |-> "error", err |-> err, value |-> <<>>]

Pending == [status |-> "pending", err |-> NoError, value |-> <<>>]

Idle == [op |-> "idle", pc |-> "idle", att |-> 0, req |-> <<>>, loc |-> <<>>,
         calls |-> <<>>, result |-> Pending]

Slots == {1}

(***************************************************************************)
(* The store (1_create_tables.up.sql, 2_insert_system_prompts.up.sql).     *)
(* Every row also records "att", the invocation that wrote it (0 for the   *)
(* migrations): a history column, read by no handler.                      *)
(***************************************************************************)
\* api_keys.provider CHECK(provider IN (...))
ApiKeyProviderCheck == {"openai", "deepseek", "openrouter"}

MainPromptLen == 2430
CompactPromptLen == 702
AgentsMdPromptLen == 732

SeededPrompts(mainActive) ==
    << [prompt_key |-> "main", prompt_len |-> MainPromptLen, is_active |-> mainActive],
       [prompt_key |-> "compact", prompt_len |-> CompactPromptLen, is_active |-> TRUE],
       [prompt_key |-> "agents_md", prompt_len |-> AgentsMdPromptLen, is_active |-> TRUE] >>

\* The row created first, not last.
EarliestRow(rows) == IF rows = <<>> THEN <<>> ELSE << rows[1] >>

\* SELECT ... ORDER BY created_at DESC LIMIT 1 over the rows a WHERE clause
\* selected (rows are kept in the order of their creation), as the sequence of
\* the row found (empty: no row).
LatestRow(rows) == IF rows = <<>> THEN <<>> ELSE << rows[Len(rows)] >>

\* The tables after the migrations, the 'main' prompt active or deactivated.
InitTables ==
    /\ users = {}
    /\ api_keys = <<>>
    /\ prds = <<>>
    /\ sections = <<>>
    /\ generation_logs = <<>>
    /\ system_prompts \in { SeededPrompts(TRUE), SeededPrompts(FALSE) }
    /\ rnd = 0
    /\ ops = 0

InitStore ==
    /\ InitTables
    /\ inv = [p \in Slots |-> Idle]

\* A request slot takes a new invocation.
\* result is Pending unless the handler already ends in this step (pc "done").
Begin(p, op, pc, req, loc, result) ==
    /\ inv[p].op = "idle"
    /\ ops < maxOps
    /\ ops' = ops + 1
    /\ UNCHANGED maxOps
    /\ inv' = [inv EXCEPT ![p] = [op |-> op, pc |-> pc, att |-> ops + 1, req |-> req,
                                  loc |-> loc, calls |-> <<>>, result |-> result]]

At(p, op, pc) == inv[p].op = op /\ inv[p].pc = pc

Goto(p, pc, loc) == inv' = [inv EXCEPT ![p].pc = pc, ![p].loc = loc]

Finish(p, result) == inv' = [inv EXCEPT ![p].pc = "done", ![p].result = result]

\* The response has been sent: the slot is free again.
Return(p) ==
    /\ inv[p].op # "idle"
    /\ inv[p].pc = "done"
    /\ inv' = [inv EXCEPT ![p] = Idle]
    /\ UNCHANGED <<tables, rnd, ops, maxOps>>

(***************************************************************************)
(* api-keys.ts                                                             *)
(***************************************************************************)
\* saveApiKey up to its first await: the secret, the salt and the IV are the
\* next three random draws.
StartSaveApiKey(p, req) ==
    /\ Begin(p, "saveApiKey", "insertUser", req,
             [ encryptedKey |-> encryptApiKey(req.apiKey, generateUserSecret(rnd + 1),
                                              <<"salt", rnd + 2>>, <<"iv", rnd + 3>>),
               keyHint |-> getKeyHint(req.apiKey) ], Pending)
    /\ rnd' = rnd + 3
    /\ UNCHANGED tables

\* A plain INSERT INTO users, which fails on a row that exists.
SaveInsertUserPlain(p) ==
    /\ At(p, "saveApiKey", "insertUser")
    /\ IF inv[p].req.userId \in users
       THEN /\ UNCHANGED users
            /\ Finish(p, Raised(JsError("DbError", <<"constraint violation">>)))
       ELSE /\ users' = users \cup {inv[p].req.userId}
            /\ Goto(p, "insertKey", inv[p].loc)
    /\ UNCHANGED <<api_keys, prds, sections, generation_logs, system_prompts, rnd, ops, maxOps>>

\* INSERT OR IGNORE INTO users
SaveInsertUser(p) ==
    /\ At(p, "saveApiKey", "insertUser")
    /\ users' = users \cup {inv[p].req.userId}
    /\ Goto(p, "insertKey", inv[p].loc)
    /\ UNCHANGED <<api_keys, prds, sections, generation_logs, system_prompts, rnd, ops, maxOps>>

\* INSERT INTO api_keys ... RETURNING id; the statement fails on the table's
\* CHECK and FOREIGN KEY constraints.
SaveInsertKey(p) ==
    LET req == inv[p].req
        id == Len(api_keys) + 1
    IN  /\ At(p, "saveApiKey", "insertKey")
        /\ IF req.provider \in ApiKeyProviderCheck /\ req.userId \in users
           THEN /\ api_keys' = Append(api_keys,
                      [ id |-> id, user_id |-> req.userId, provider |-> req.provider,
                        encrypted_key |-> inv[p].loc.encryptedKey,
                        key_hint |-> inv[p].loc.keyHint, label |-> req.label,
                        is_active |-> TRUE, att |-> inv[p].att ])
                /\ Finish(p, Returned([id |-> id, keyHint |-> inv[p].loc.keyHint]))
           ELSE /\ UNCHANGED api_keys
                /\ Finish(p, Raised(JsError("DbError", <<"constraint violation">>)))
        /\ UNCHANGED <<users, prds, sections, generation_logs, system_prompts, rnd, ops, maxOps>>

\* getApiKeys: the metadata of the user's active keys, newest first.
GetApiKeys(p, req) ==
    LET mine == SelectSeq(api_keys, LAMBDA k : k.user_id = req.userId /\ k.is_active)
        n == Len(mine)
        keys == [ i \in 1..n |->
                    [ id |-> mine[n + 1 - i].id, provider |-> mine[n + 1 - i].provider,
                      keyHint |-> mine[n + 1 - i].key_hint, label |-> mine[n + 1 - i].label ] ]
    IN  /\ Begin(p, "getApiKeys", "done", req, <<>>, Returned(keys))
        /\ UNCHANGED <<tables, rnd>>

\* getDecryptedApiKey(userId, provider) with the next random draw as the
\* secret: the plaintext, or null (the empty text) when there is no row or the
\* decryption throws.
getDecryptedApiKey(userId, provider) ==
    LET keyData == LatestRow(SelectSeq(api_keys,
                     LAMBDA k : k.user_id = userId /\ k.provider = provider /\ k.is_active))
    IN  IF keyData = <<>> THEN <<>>
        ELSE LET d == decryptApiKey(keyData[1].encrypted_key, generateUserSecret(rnd + 1))
             IN  IF d.ok THEN d.value ELSE <<>>

(***************************************************************************)
(* Text and regular expressions.  A pattern is a tree of nodes; Rx gives,  *)
(* in the order a backtracking matcher tries them, the ways the node       *)
(* matches text s from position i: each way is where it ends (e) and the   *)
(* capture group's text so far (c, None or Some).                          *)
(***************************************************************************)
UpperCase == <<"A", "B", "C", "D", "E", "F", "G", "H", "I", "J", "K", "L", "M", "N", "O", "P", "Q", "R", "S", "T", "U", "V", "W", "X", "Y", "Z">>
LowerCase == <<"a", "b", "c", "d", "e", "f", "g", "h", "i", "j", "k", "l", "m", "n", "o", "p", "q", "r", "s", "t", "u", "v", "w", "x", "y", "z">>
Digits == {"0", "1", "2", "3", "4", "5", "6", "7", "8", "9"}
Letters == { UpperCase[i] : i \in 1..26 } \cup { LowerCase[i] : i \in 1..26 }
WhiteSpace == {" ", "\t", "\n", "\r"}
LineTerminators == {"\n", "\r"}

toLowerCaseChar(ch) ==
    IF \E i \in 1..26 : UpperCase[i] = ch
    THEN LowerCase[CHOOSE i \in 1..26 : UpperCase[i] = ch]
    ELSE ch

toLowerCase(s) == [ i \in 1..Len(s) |-> toLowerCaseChar(s[i]) ]

Lit(str) == [t |-> "lit", s |-> str]
Cls(set) == [t |-> "cls", set |-> set]
AnyChar == [t |-> "any"]
Cat(xs) == [t |-> "cat", xs |-> xs]
Alt(xs) == [t |-> "alt", xs |-> xs]
Opt(x) == [t |-> "opt", x |-> x]
Star(x) == [t |-> "star", x |-> x]
Plus(x) == [t |-> "cat", xs |-> <<x, Star(x)>>]
Cap(x) == [t |-> "cap", x |-> x]
Bol == [t |-> "bol"]
Eol == [t |-> "eol"]

\* fl.i: the i flag (ignore case); fl.m: the m flag (^ and $ at line breaks).
NoFlags == [i |-> FALSE, m |-> FALSE]

RECURSIVE Rx(_, _, _, _, _)
RECURSIVE RxList(_, _, _, _, _)
RECURSIVE RxEach(_, _, _, _)
RECURSIVE RxAlt(_, _, _, _, _)

\* The number of characters of s from place i on that the one-character node
\* n takes one after the other.
RunLength(n, s, i) ==
    LET stops == { j \in i..(Len(s) + 1) :
                     \/ j = Len(s) + 1
                     \/ IF n.t = "cls" THEN s[j] \notin n.set ELSE s[j] \in LineTerminators }
    IN  (CHOOSE j \in stops : \A k \in stops : j <= k) - i

Rx(n, s, i, c, fl) ==
    CASE n.t = "lit" ->
           LET k == Len(n.s)
               body == IF i + k - 1 <= Len(s) THEN SubSeq(s, i, i + k - 1) ELSE <<>>
           IN  IF i + k - 1 <= Len(s)
                  /\ (IF fl.i THEN toLowerCase(body) = toLowerCase(n.s) ELSE body = n.s)
               THEN << [e |-> i + k, c |-> c] >> ELSE <<>>
      [] n.t = "cls" ->
           IF i <= Len(s) /\ s[i] \in n.set THEN << [e |-> i + 1, c |-> c] >> ELSE <<>>
      [] n.t = "any" ->
           IF i <= Len(s) /\ s[i] \notin LineTerminators
           THEN << [e |-> i + 1, c |-> c] >> ELSE <<>>
      [] n.t = "cat" -> RxList(n.xs, s, i, c, fl)
      [] n.t = "alt" -> RxAlt(n.xs, s, i, c, fl)
      [] n.t = "opt" -> Rx(n.x, s, i, c, fl) \o << [e |-> i, c |-> c] >>
      [] n.t = "star" ->
           IF n.x.t \in {"cls", "any"}
           THEN LET k == RunLength(n.x, s, i)
                IN  [ j \in 1..(k + 1) |-> [e |-> i + k + 1 - j, c |-> c] ]
           ELSE RxEach(SelectSeq(Rx(n.x, s, i, c, fl), LAMBDA r : r.e > i), <<n>>, s, fl)
                  \o << [e |-> i, c |-> c] >>
      [] n.t = "cap" ->
           LET rs == Rx(n.x, s, i, c, fl)
           IN  [ j \in 1..Len(rs) |-> [e |-> rs[j].e, c |-> Some(SubSeq(s, i, rs[j].e - 1))] ]
      [] n.t = "bol" ->
           IF i = 1 \/ (fl.m /\ s[i - 1] \in LineTerminators)
           THEN << [e |-> i, c |-> c] >> ELSE <<>>
      [] n.t = "eol" ->
           IF i = Len(s) + 1 \/ (fl.m /\ s[i] \in LineTerminators)
           THEN << [e |-> i, c |-> c] >> ELSE <<>>

RxList(ns, s, i, c, fl) ==
    IF ns = <<>> THEN << [e |-> i, c |-> c] >>
    ELSE RxEach(Rx(Head(ns), s, i, c, fl), Tail(ns), s, fl)

RxEach(rs, ns, s, fl) ==
    IF rs = <<>> THEN <<>>
    ELSE RxList(ns, s, Head(rs).e, Head(rs).c, fl) \o RxEach(Tail(rs), ns, s, fl)

RxAlt(ns, s, i, c, fl) ==
    IF ns = <<>> THEN <<>>
    ELSE Rx(Head(ns), s, i, c, fl) \o RxAlt(Tail(ns), s, i, c, fl)

\* String.prototype.match(re) without the g flag: the first way of the
\* leftmost start that has one.  found, and the capture group (None when the
\* group took no part).
RxMatch(re, s, fl) ==
    LET starts == { i \in 1..(Len(s) + 1) : Rx(re, s, i, None, fl) # <<>> }
    IN  IF starts = {} THEN [found |-> FALSE, group |-> None]
        ELSE LET i0 == CHOOSE i \in starts : \A j \in starts : i <= j
             IN  [found |-> TRUE, group |-> Rx(re, s, i0, None, fl)[1].c]

\* String.prototype.trim()
RECURSIVE trimStart(_)
trimStart(s) == IF s # <<>> /\ Head(s) \in WhiteSpace THEN trimStart(Tail(s)) ELSE s

RECURSIVE trimEnd(_)
trimEnd(s) ==
    IF s # <<>> /\ Last(s) \in WhiteSpace THEN trimEnd(SubSeq(s, 1, Len(s) - 1)) ELSE s

trim(s) == trimEnd(trimStart(s))

RECURSIVE trimRun(_, _)
trimRun(s, set) == IF s # <<>> /\ Head(s) \in set THEN trimRun(Tail(s), set) ELSE s

\* s.replace(/[set]+/g, by): every maximal run of characters of the set
\* becomes one copy of by.
RECURSIVE replaceRuns(_, _, _)
replaceRuns(s, set, by) ==
    IF s = <<>> THEN <<>>
    ELSE IF Head(s) \in set
         THEN by \o replaceRuns(trimRun(Tail(s), set), set, by)
         ELSE <<Head(s)>> \o replaceRuns(Tail(s), set, by)

\* s.replace(/[^keep]/g, '')
keepOnly(s, keep) == SelectSeq(s, LAMBDA ch : ch \in keep)

\* String.prototype.split('\n')
RECURSIVE splitLines(_)
splitLines(s) ==
    IF \A i \in 1..Len(s) : s[i] # "\n" THEN <<s>>
    ELSE LET k == CHOOSE i \in 1..Len(s) : s[i] = "\n" /\ \A j \in 1..(i - 1) : s[j] # "\n"
         IN  <<SubSeq(s, 1, k - 1)>> \o splitLines(SubSeq(s, k + 1, Len(s)))

(***************************************************************************)
(* generate.ts: the pure helpers.                                          *)
(***************************************************************************)
\* /^#\s+(.+)$/m
TitleRe == Cat(<< Bol, Lit(<<"#">>), Plus(Cls(WhiteSpace)), Cap(Plus(AnyChar)), Eol >>)

UntitledPRD == <<"U", "n", "t", "i", "t", "l", "e", "d", " ", "P", "R", "D">>

extractTitle(content) ==
    LET match == RxMatch(TitleRe, content, [i |-> FALSE, m |-> TRUE])
    IN  IF match.found THEN trim(match.group[1]) ELSE UntitledPRD

\* /^#\s+\d+\.\s+(.+)$/
HeaderRe ==
    Cat(<< Bol, Lit(<<"#">>), Plus(Cls(WhiteSpace)), Plus(Cls(Digits)), Lit(<<".">>),
           Plus(Cls(WhiteSpace)), Cap(Plus(AnyChar)), Eol >>)

headerMatch(line) == RxMatch(HeaderRe, line, NoFlags)

\* The type with every white space character, not every run, replaced.
sectionTypeEachSpace(heading) ==
    [ i \in 1..Len(heading) |->
        IF heading[i] \in WhiteSpace THEN "_" ELSE toLowerCaseChar(heading[i]) ]

\* headerMatch[1].toLowerCase().replace(/\s+/g, '_')
sectionType(heading) == replaceRuns(toLowerCase(heading), WhiteSpace, <<"_">>)

\* The loop of parseSections over lines[k..]: cur is currentSection (None or
\* Some), done the sections pushed so far.
RECURSIVE parseLines(_, _, _, _)
parseLines(lines, k, cur, done) ==
    IF k > Len(lines)
    THEN done \o cur
    ELSE LET line == lines[k]
             m == headerMatch(line)
         IN  IF m.found
             THEN parseLines(lines, k + 1,
                             Some([type |-> sectionType(m.group[1]),
                                   content |-> line \o <<"\n">>]),
                             done \o cur)
             ELSE IF cur # None
                  THEN parseLines(lines, k + 1,
                                  Some([type |-> cur[1].type,
                                        content |-> cur[1].content \o line \o <<"\n">>]),
                                  done)
                  ELSE parseLines(lines, k + 1, cur, done)

\* parseSections without its closing push: the last section is lost.
parseSectionsLosingLast(content) ==
    LET all == parseLines(splitLines(content), 1, None, <<>>)
    IN  SubSeq(all, 1, Len(all) - 1)

parseSections(content) == parseLines(splitLines(content), 1, None, <<>>)

\* /(?:name|title|call|called)\s*(?:it|this|the\s+(?:app|application|project|product))?\s*["\']?([a-zA-Z0-9\s-_]+)["\']?/i
NameChars == Letters \cup Digits \cup WhiteSpace \cup {"-", "_"}

NameRe ==
    Cat(<< Alt(<< Lit(<<"n", "a", "m", "e">>), Lit(<<"t", "i", "t", "l", "e">>), Lit(<<"c", "a", "l", "l">>), Lit(<<"c", "a", "l", "l", "e", "d">>) >>),
           Star(Cls(WhiteSpace)),
           Opt(Alt(<< Lit(<<"i", "t">>), Lit(<<"t", "h", "i", "s">>),
                      Cat(<< Lit(<<"t", "h", "e">>), Plus(Cls(WhiteSpace)),
                             Alt(<< Lit(<<"a", "p", "p">>), Lit(<<"a", "p", "p", "l", "i", "c", "a", "t", "i", "o", "n">>), Lit(<<"p", "r", "o", "j", "e", "c", "t">>),
                                    Lit(<<"p", "r", "o", "d", "u", "c", "t">>) >>) >>) >>)),
           Star(Cls(WhiteSpace)),
           Opt(Cls({"\"", "'"})),
           Cap(Plus(Cls(NameChars))),
           Opt(Cls({"\"", "'"})) >>)

nameMatch(input) == RxMatch(NameRe, input, [i |-> TRUE, m |-> FALSE])

PrdSuffix == <<"-", "p", "r", "d", ".", "m", "d">>

\* The file name made of the captured name as it stands, not trimmed.
userProvidedFilenameUntrimmed(name) ==
    replaceRuns(toLowerCase(name), WhiteSpace, <<"-">>) \o PrdSuffix

\* nameMatch[1].trim().toLowerCase().replace(/\s+/g, '-') + '-prd.md'
userProvidedFilename(name) ==
    replaceRuns(toLowerCase(trim(name)), WhiteSpace, <<"-">>) \o PrdSuffix

\* data.choices[0].message.content.trim().toLowerCase().replace(/[^a-z0-9]/g, '') + '-prd.md'
codenameFilename(answer) ==
    keepOnly(toLowerCase(trim(answer)), { LowerCase[i] : i \in 1..26 } \cup Digits)
      \o PrdSuffix

\* title.toLowerCase().replace(/[^a-z0-9\s]/g, '').replace(/\s+/g, '-').substring(0, 30),
\* or 'untitled', + '-prd.md'
titleFilename(title) ==
    LET kept == keepOnly(toLowerCase(title),
                         { LowerCase[i] : i \in 1..26 } \cup Digits \cup WhiteSpace)
        dashed == replaceRuns(kept, WhiteSpace, <<"-">>)
        titleSlug == SubSeq(dashed, 1, IF Len(dashed) < 30 THEN Len(dashed) ELSE 30)
    IN  (IF titleSlug = <<>> THEN <<"u", "n", "t", "i", "t", "l", "e", "d">> ELSE titleSlug) \o PrdSuffix

(***************************************************************************)
(* generate.ts: the handler.  A request carries the input text, and of     *)
(* the system instructions and of the wizard data, which the handler only  *)
(* measures and forwards, their lengths (0: not supplied).                 *)
(***************************************************************************)
GenLoc ==
    [ apiKey |-> <<>>, promptSrc |-> "none", promptLen |-> 0, inputTokens |-> 0,
      contextWindow |-> 0, content |-> <<>>, title |-> <<>>, filename |-> <<>>,
      prdId |-> 0, secs |-> <<>>, i |-> 0, sectionResults |-> <<>>, err |-> NoError ]

StartGenerate(p, req) ==
    /\ Begin(p, "generate", "upsertUser", req, GenLoc, Pending)
    /\ UNCHANGED <<tables, rnd>>

\* generate without the statement that ensures the user row.
GenUpsertUserSkipped(p) ==
    /\ At(p, "generate", "upsertUser")
    /\ Goto(p, "resolveKey", inv[p].loc)
    /\ UNCHANGED <<tables, rnd, ops, maxOps>>

\* INSERT INTO users ... ON CONFLICT(id) DO UPDATE SET last_seen
GenUpsertUser(p) ==
    /\ At(p, "generate", "upsertUser")
    /\ users' = users \cup {inv[p].req.userId}
    /\ Goto(p, "resolveKey", inv[p].loc)
    /\ UNCHANGED <<api_keys, prds, sections, generation_logs, system_prompts, rnd, ops, maxOps>>

DefaultOpenRouterContextWindow == 128000

\* The model validation: the context window of modelInfo, or the error thrown.
ResolveModelInfo(provider, model) ==
    IF provider = "openrouter"
    THEN [ok |-> TRUE, contextWindow |-> DefaultOpenRouterContextWindow, err |-> NoError]
    ELSE IF ProviderLookup(provider) = "inherited"
    THEN [ok |-> FALSE, contextWindow |-> 0,
          err |-> JsError("TypeError", <<"Cannot read properties of undefined (reading 'find')">>)]
    ELSE IF FindModel(provider, model) = <<>>
    THEN [ok |-> FALSE, contextWindow |-> 0,
          err |-> APIError("invalid_argument", <<"Unsupported model: ", model>>)]
    ELSE [ok |-> TRUE, contextWindow |-> FindModel(provider, model)[1].contextWindow,
          err |-> NoError]

\* The key of the request, else the stored one; then the provider and the
\* model are validated.
GenResolveKey(p) ==
    LET req == inv[p].req
        lookedUp == req.apiKey = <<>>
        hasRow == LatestRow(SelectSeq(api_keys, LAMBDA k : k.user_id = req.userId
                                /\ k.provider = req.provider /\ k.is_active)) # <<>>
        apiKey == IF lookedUp THEN getDecryptedApiKey(req.userId, req.provider) ELSE req.apiKey
        modelInfo == ResolveModelInfo(req.provider, req.model)
    IN  /\ At(p, "generate", "resolveKey")
        /\ rnd' = IF lookedUp /\ hasRow THEN rnd + 1 ELSE rnd
        /\ IF apiKey = <<>>
           THEN Finish(p, Raised(APIError("not_found", <<"No API key found for this provider. Please provide one or save it for future use.">>)))
           ELSE IF ProviderLookup(req.provider) = "undefined"
           THEN Finish(p, Raised(APIError("invalid_argument", <<"Unsupported provider: ", req.provider>>)))
           ELSE IF ~modelInfo.ok
           THEN Finish(p, Raised(modelInfo.err))
           ELSE Goto(p, "prompt", [inv[p].loc EXCEPT !.apiKey = apiKey,
                                                     !.contextWindow = modelInfo.contextWindow])
        /\ UNCHANGED <<tables, ops, maxOps>>

WizardHeaderLen == 34

\* The length of finalInput.
FinalInputLen(req) ==
    IF req.mode = "wizard" /\ req.wizardJsonLen > 0
    THEN Len(req.input) + WizardHeaderLen + req.wizardJsonLen
    ELSE Len(req.input)

\* The check with >= for >.
ContextExceededAtBudget(provider, inputTokens, contextWindow) ==
    provider # "openrouter" /\ 10 * inputTokens >= 6 * contextWindow

\* provider !== 'openrouter' && inputTokens > modelInfo.contextWindow * 0.6
\* (the product is exact for every context window of the registry)
ContextExceeded(provider, inputTokens, contextWindow) ==
    provider # "openrouter" /\ 10 * inputTokens > 6 * contextWindow

\* The system prompt is resolved, the input prepared and measured.
GenPrompt(p) ==
    LET req == inv[p].req
        loc == inv[p].loc
        stored == LatestRow(SelectSeq(system_prompts,
                                     LAMBDA r : r.prompt_key = "main" /\ r.is_active))
        custom == req.systemInstructionsLen > 0
        promptLen == IF custom THEN req.systemInstructionsLen ELSE stored[1].prompt_len
        inputTokens == estimateTokens(promptLen + FinalInputLen(req))
    IN  /\ At(p, "generate", "prompt")
        /\ IF ~custom /\ stored = <<>>
           THEN Finish(p, Raised(APIError("internal", <<"System prompt not found">>)))
           ELSE IF ContextExceeded(req.provider, inputTokens, loc.contextWindow)
           THEN Finish(p, Raised(APIError("invalid_argument", <<"Input too long for selected model context window">>)))
           ELSE Goto(p, "callAI", [loc EXCEPT !.promptSrc = IF custom THEN "caller" ELSE "stored",
                                              !.promptLen = promptLen,
                                              !.inputTokens = inputTokens])
        /\ UNCHANGED <<tables, rnd, ops, maxOps>>

\* callAI has a branch for these providers only.
CallAIProviders == {"openai", "deepseek", "openrouter"}

CallAIErrorPrefix(provider) ==
    CASE provider = "openai" -> "OpenAI API error: "
      [] provider = "deepseek" -> "DeepSeek API error: "
      [] provider = "openrouter" -> "OpenRouter API error: "

\* What callAI throws on a response, NoError when it returns the content.
CallAIError(provider, response) ==
    CASE response.kind = "ok" -> NoError
      [] response.kind = "http" -> JsError("Error", <<CallAIErrorPrefix(provider), response.body>>)
      [] response.kind = "transport" -> JsError("TypeError", <<"fetch failed">>)
      [] response.kind = "malformed" ->
           JsError("TypeError", <<"Cannot read properties of undefined (reading '0')">>)

\* generateFilename up to its fetch: the file name when the input names the
\* product, else None.
NamedFilename(input) ==
    LET m == nameMatch(input)
    IN  IF m.found /\ m.group[1] # <<>> THEN Some(userProvidedFilename(m.group[1])) ELSE None

\* An outbound call that was made, with the response it got.
Call(kind, response) == [kind |-> kind, outcome |-> response.kind, response |-> response]

\* callAI called again after a failure, up to two attempts.
GenCallAIRetrying(p, Responses) ==
    LET req == inv[p].req
    IN  /\ At(p, "generate", "callAI")
        /\ req.provider \in CallAIProviders
        /\ \E response \in Responses :
              inv' = [inv EXCEPT
                        ![p].pc = IF response.kind # "ok"
                                  THEN (IF inv[p].calls = <<>> THEN "callAI" ELSE "catch")
                                  ELSE IF NamedFilename(req.input) = None THEN "codename"
                                  ELSE "insertPrd",
                        ![p].loc.err = CallAIError(req.provider, response),
                        ![p].loc.content = response.content,
                        ![p].loc.title = extractTitle(response.content),
                        ![p].loc.filename = IF NamedFilename(req.input) = None THEN <<>>
                                            ELSE NamedFilename(req.input)[1],
                        ![p].calls = Append(@, Call("completion", response))]
        /\ UNCHANGED <<tables, rnd, ops, maxOps>>

\* callAI and what follows it up to the next await.
GenCallAI(p, Responses) ==
    LET req == inv[p].req
        loc == inv[p].loc
    IN  /\ At(p, "generate", "callAI")
        /\ IF req.provider \notin CallAIProviders
           THEN inv' = [inv EXCEPT ![p].pc = "catch",
                          ![p].loc.err = JsError("Error", <<"Provider ", req.provider, " not implemented">>)]
           ELSE \E response \in Responses :
                  LET err == CallAIError(req.provider, response)
                      title == extractTitle(response.content)
                      named == NamedFilename(req.input)
                  IN  IF response.kind # "ok"
                      THEN inv' = [inv EXCEPT ![p].pc = "catch", ![p].loc.err = err,
                                       ![p].calls = Append(@, Call("completion", response))]
                      ELSE inv' = [inv EXCEPT
                                     ![p].pc = IF named = None THEN "codename" ELSE "insertPrd",
                                     ![p].loc.content = response.content,
                                     ![p].loc.title = title,
                                     ![p].loc.filename = IF named = None THEN <<>> ELSE named[1],
                                     ![p].calls = Append(@, Call("completion", response))]
        /\ UNCHANGED <<tables, rnd, ops, maxOps>>

\* A codename call whose failure is thrown to the catch block of generate.
GenCodenameThrowing(p, Responses) ==
    /\ At(p, "generate", "codename")
    /\ \E response \in Responses :
         inv' = [inv EXCEPT
                   ![p].pc = IF response.kind = "ok" THEN "insertPrd" ELSE "catch",
                   ![p].loc.filename = codenameFilename(response.content),
                   ![p].loc.err = CallAIError(inv[p].req.provider, response),
                   ![p].calls = Append(@, Call("codename", response))]
    /\ UNCHANGED <<tables, rnd, ops, maxOps>>

\* The codename call of generateFilename and its fallback.
GenCodename(p, Responses) ==
    /\ At(p, "generate", "codename")
    /\ \E response \in Responses :
         inv' = [inv EXCEPT
                   ![p].pc = "insertPrd",
                   ![p].loc.filename = IF response.kind = "ok"
                                       THEN codenameFilename(response.content)
                                       ELSE titleFilename(inv[p].loc.title),
                   ![p].calls = Append(@, Call("codename", response))]
    /\ UNCHANGED <<tables, rnd, ops, maxOps>>

\* A statement inside the try block either takes effect or throws.
StatementOutcomes == {"ok", "throws"}

DbError == JsError("DbError", <<"statement failed">>)

Caught(p, err) == inv' = [inv EXCEPT ![p].pc = "catch", ![p].loc.err = err]

\* INSERT INTO prds ... RETURNING id, then parseSections
GenInsertPrd(p) ==
    LET req == inv[p].req
        loc == inv[p].loc
        id == Len(prds) + 1
        secs == parseSections(loc.content)
    IN  /\ At(p, "generate", "insertPrd")
        /\ \E outcome \in StatementOutcomes :
             IF outcome = "throws"
             THEN Caught(p, DbError) /\ UNCHANGED prds
             ELSE /\ prds' = Append(prds,
                        [ id |-> id, user_id |-> req.userId, title |-> loc.title,
                          input_text |-> req.input, input_mode |-> req.mode,
                          generated_content |-> loc.content,
                          model_provider |-> req.provider, model_name |-> req.model,
                          total_tokens |-> loc.inputTokens + estimateTokens(Len(loc.content)),
                          att |-> inv[p].att ])
                  /\ inv' = [inv EXCEPT ![p].pc = IF secs = <<>> THEN "logSuccess"
                                                  ELSE "insertSection",
                                        ![p].loc.prdId = id, ![p].loc.secs = secs,
                                        ![p].loc.i = 0]
        /\ UNCHANGED <<users, api_keys, sections, generation_logs, system_prompts, rnd, ops, maxOps>>

\* A loop that numbers the Sections from 0.
GenInsertSectionFromZero(p) ==
    LET loc == inv[p].loc
        section == loc.secs[loc.i + 1]
        id == Len(sections) + 1
    IN  /\ At(p, "generate", "insertSection")
        /\ sections' = Append(sections,
              [ id |-> id, prd_id |-> loc.prdId, section_type |-> section.type,
                section_order |-> loc.i, content |-> section.content,
                tokens |-> estimateTokens(Len(section.content)), version |-> 1,
                att |-> inv[p].att ])
        /\ inv' = [inv EXCEPT ![p].pc = IF loc.i + 1 < Len(loc.secs)
                                        THEN "insertSection" ELSE "logSuccess",
                              ![p].loc.i = loc.i + 1,
                              ![p].loc.sectionResults =
                                  Append(@, [id |-> id, type |-> section.type])]
        /\ UNCHANGED <<users, api_keys, prds, generation_logs, system_prompts, rnd, ops, maxOps>>

\* One turn of the loop: INSERT INTO sections ... RETURNING id
GenInsertSection(p) ==
    LET loc == inv[p].loc
        section == loc.secs[loc.i + 1]
        id == Len(sections) + 1
    IN  /\ At(p, "generate", "insertSection")
        /\ \E outcome \in StatementOutcomes :
             IF outcome = "throws"
             THEN Caught(p, DbError) /\ UNCHANGED sections
             ELSE /\ sections' = Append(sections,
                        [ id |-> id, prd_id |-> loc.prdId, section_type |-> section.type,
                          section_order |-> loc.i + 1, content |-> section.content,
                          tokens |-> estimateTokens(Len(section.content)), version |-> 1,
                          att |-> inv[p].att ])
                  /\ inv' = [inv EXCEPT ![p].pc = IF loc.i + 1 < Len(loc.secs)
                                                  THEN "insertSection" ELSE "logSuccess",
                                        ![p].loc.i = loc.i + 1,
                                        ![p].loc.sectionResults =
                                            Append(@, [id |-> id, type |-> section.type])]
        /\ UNCHANGED <<users, api_keys, prds, generation_logs, system_prompts, rnd, ops, maxOps>>

\* A success log statement that throws after its row was written.
GenLogSuccessLeaky(p) ==
    LET req == inv[p].req
        loc == inv[p].loc
    IN  /\ At(p, "generate", "logSuccess")
        /\ generation_logs' = Append(generation_logs,
              [ id |-> Len(generation_logs) + 1, user_id |-> req.userId,
                prd_id |-> loc.prdId, action |-> "generate",
                model_provider |-> req.provider, model_name |-> req.model,
                error_message |-> None, has_duration |-> TRUE,
                att |-> inv[p].att ])
        /\ \E outcome \in StatementOutcomes :
             IF outcome = "throws"
             THEN Caught(p, DbError)
             ELSE Finish(p, Returned([ prdId |-> loc.prdId, content |-> loc.content,
                                      filename |-> loc.filename,
                                      sections |-> loc.sectionResults ]))
        /\ UNCHANGED <<users, api_keys, prds, sections, system_prompts, rnd, ops, maxOps>>

\* INSERT INTO generation_logs (success), then the response
GenLogSuccess(p) ==
    LET req == inv[p].req
        loc == inv[p].loc
    IN  /\ At(p, "generate", "logSuccess")
        /\ \E outcome \in StatementOutcomes :
             IF outcome = "throws"
             THEN Caught(p, DbError) /\ UNCHANGED generation_logs
             ELSE /\ generation_logs' = Append(generation_logs,
                        [ id |-> Len(generation_logs) + 1, user_id |-> req.userId,
                          prd_id |-> loc.prdId, action |-> "generate",
                          model_provider |-> req.provider, model_name |-> req.model,
                          error_message |-> None, has_duration |-> TRUE,
                          att |-> inv[p].att ])
                  /\ Finish(p, Returned([ prdId |-> loc.prdId, content |-> loc.content,
                                          filename |-> loc.filename,
                                          sections |-> loc.sectionResults ]))
        /\ UNCHANGED <<users, api_keys, prds, sections, system_prompts, rnd, ops, maxOps>>

\* A rethrow that keeps nothing of the error it caught.
RethrownOpaque(err) ==
    IF err.api THEN err ELSE APIError("internal", <<"Generation failed">>)

\* What the catch block throws for the error it caught.
Rethrown(err) ==
    IF err.api THEN err ELSE APIError("internal", <<"Generation failed: ">> \o err.msg)

\* A catch block that rethrows without the INSERT.
GenCatchWithoutLog(p) ==
    /\ At(p, "generate", "catch")
    /\ Finish(p, Raised(Rethrown(inv[p].loc.err)))
    /\ UNCHANGED <<tables, rnd, ops, maxOps>>

\* The catch block: INSERT INTO generation_logs (failure), then the rethrow
GenCatch(p) ==
    LET req == inv[p].req
        loc == inv[p].loc
    IN  /\ At(p, "generate", "catch")
        /\ generation_logs' = Append(generation_logs,
              [ id |-> Len(generation_logs) + 1, user_id |-> req.userId, prd_id |-> 0,
                action |-> "generate", model_provider |-> req.provider,
                model_name |-> req.model, error_message |-> Some(loc.err.msg),
                has_duration |-> TRUE, att |-> inv[p].att ])
        /\ Finish(p, Raised(Rethrown(loc.err)))
        /\ UNCHANGED <<users, api_keys, prds, sections, system_prompts, rnd, ops, maxOps>>

(***************************************************************************)
(* list-provider-models.ts                                                 *)
(***************************************************************************)
InternalError(prefix, err) == APIError("internal", prefix \o err.msg)

FetchFailed == JsError("TypeError", <<"fetch failed">>)

JsonSyntaxError == JsError("SyntaxError", <<"Unexpected token in JSON">>)

NotAnObject == JsError("TypeError", <<"Cannot read properties of undefined (reading 'map')">>)

\* error.error?.message || `Invalid ${name} API key`, after response.json():
\* the APIError thrown for a non-2xx response, or what response.json() throws.
InvalidKeyError(provider, response) ==
    CASE response.json = "unparseable" -> JsonSyntaxError
      [] response.json = "message" -> APIError("unauthenticated", <<response.body>>)
      [] response.json = "nomessage" ->
           APIError("unauthenticated", <<"Invalid ", AI_PROVIDERS[provider].name, " API key">>)

\* The whole catalog when the list names one of its models.
UserModelsUnfiltered(provider, availableModelIds) ==
    IF \E k \in 1..Len(AI_PROVIDERS[provider].models) :
          AI_PROVIDERS[provider].models[k].name \in availableModelIds
    THEN AI_PROVIDERS[provider].models ELSE <<>>

\* providerInfo.models.filter(m => availableModelIds.includes(m.name))
UserModels(provider, availableModelIds) ==
    SelectSeq(AI_PROVIDERS[provider].models, LAMBDA m : m.name \in availableModelIds)

\* value || fallback for a number that the payload may lack (None): 0 is falsy.
OrNumber(value, fallback) ==
    IF value = None \/ value = Some(0) THEN fallback ELSE value[1]

\* The models of an OpenRouter payload.
OpenRouterModels(payload) ==
    [ i \in 1..Len(payload) |->
        [ name |-> payload[i].id, contextWindow |-> OrNumber(payload[i].context_length, 0) ] ]

\* The handler up to its fetch.
StartListProviderModels(p, req) ==
    LET found == ProviderLookup(req.provider)
        info == AI_PROVIDERS[req.provider]
    IN  /\ CASE found = "undefined" ->
                  Begin(p, "listProviderModels", "done", req, <<>>,
                        Raised(APIError("invalid_argument", <<"Unsupported provider: ", req.provider>>)))
             [] found = "inherited" ->
                  Begin(p, "listProviderModels", "done", req, <<>>,
                        Raised(JsError("TypeError", <<"Cannot read properties of undefined (reading 'length')">>)))
             [] found = "own" /\ info.hasModelList ->
                  Begin(p, "listProviderModels", "fetchModels", req, <<>>, Pending)
             [] found = "own" /\ ~info.hasModelList /\ Len(info.models) = 0 ->
                  Begin(p, "listProviderModels", "done", req, <<>>, Returned(<<>>))
             [] found = "own" /\ ~info.hasModelList /\ Len(info.models) > 0 ->
                  Begin(p, "listProviderModels", "probe", req, <<>>, Pending)
        /\ UNCHANGED <<tables, rnd>>

\* What the try block of the dynamic listing ends with.
ListedModels(provider, response) ==
    LET format == AI_PROVIDERS[provider].modelList.responseFormat
        ids == { response.models[i].id : i \in 1..Len(response.models) }
    IN  CASE response.kind = "transport" -> Raised(FetchFailed)
          [] response.kind = "http" -> Raised(InvalidKeyError(provider, response))
          [] response.kind = "malformed" -> Raised(NotAnObject)
          [] response.kind = "ok" /\ format = "openrouter" ->
               Returned(OpenRouterModels(response.models))
          [] response.kind = "ok" /\ format # "openrouter" ->
               IF UserModels(provider, ids) = <<>>
               THEN Raised(APIError("not_found",
                      <<"No supported ", AI_PROVIDERS[provider].name, " models found for your API key.">>))
               ELSE Returned(UserModels(provider, ids))

\* catch (error): an APIError is rethrown, anything else wrapped.
ListCatch(prefix, outcome) ==
    IF outcome.status = "error" /\ ~outcome.err.api
    THEN Raised(InternalError(prefix, outcome.err))
    ELSE outcome

\* A listing that repeats the GET once when fetch() threw.
ListFetchModelsRetrying(p, Responses) ==
    /\ At(p, "listProviderModels", "fetchModels")
    /\ \E response \in Responses :
         inv' = [inv EXCEPT
                   ![p].pc = IF response.kind = "transport" /\ inv[p].calls = <<>>
                             THEN "fetchModels" ELSE "done",
                   ![p].calls = Append(@, Call("models", response)),
                   ![p].result = IF response.kind = "transport" /\ inv[p].calls = <<>>
                                 THEN Pending
                                 ELSE ListCatch(<<"An error occurred while fetching models: ">>,
                                                ListedModels(inv[p].req.provider, response))]
    /\ UNCHANGED <<tables, rnd, ops, maxOps>>

\* The GET of the model list and the handling of its response.
ListFetchModels(p, Responses) ==
    /\ At(p, "listProviderModels", "fetchModels")
    /\ \E response \in Responses :
         inv' = [inv EXCEPT
                   ![p].pc = "done",
                   ![p].calls = Append(@, Call("models", response)),
                   ![p].result = ListCatch(<<"An error occurred while fetching models: ">>,
                                           ListedModels(inv[p].req.provider, response))]
    /\ UNCHANGED <<tables, rnd, ops, maxOps>>

\* What the validation probe ends with.
ProbedModels(provider, response) ==
    CASE response.kind = "transport" -> Raised(FetchFailed)
      [] response.kind = "http" -> Raised(InvalidKeyError(provider, response))
      [] response.kind \in {"ok", "malformed"} -> Returned(AI_PROVIDERS[provider].models)

\* The validation POST of a provider without a model list.
ListProbe(p, Responses) ==
    LET name == AI_PROVIDERS[inv[p].req.provider].name
    IN  /\ At(p, "listProviderModels", "probe")
        /\ \E response \in Responses :
             inv' = [inv EXCEPT
                       ![p].pc = "done",
                       ![p].calls = Append(@, Call("probe", response)),
                       ![p].result = ListCatch(<<"Key validation failed for ", name, ": ">>,
                                               ProbedModels(inv[p].req.provider, response))]
        /\ UNCHANGED <<tables, rnd, ops, maxOps>>

(***************************************************************************)
(* test-connection.ts                                                      *)
(***************************************************************************)
Invalid(error) == [valid |-> FALSE, model |-> "", contextWindow |-> 0, error |-> error]

Valid(provider) ==
    [ valid |-> TRUE, model |-> AI_PROVIDERS[provider].models[1].name,
      contextWindow |-> AI_PROVIDERS[provider].models[1].contextWindow, error |-> <<>> ]

\* The handler up to its fetch.
StartTestConnection(p, req) ==
    /\ CASE ProviderLookup(req.provider) = "undefined" ->
              Begin(p, "testConnection", "done", req, <<>>,
                    Raised(APIError("invalid_argument", <<"Unsupported provider: ", req.provider>>)))
         [] ProviderLookup(req.provider) # "undefined" /\ req.provider \in {"openai", "anthropic"} ->
              Begin(p, "testConnection", "fetch", req, <<>>, Pending)
         [] ProviderLookup(req.provider) # "undefined" /\ req.provider \notin {"openai", "anthropic"} ->
              Begin(p, "testConnection", "done", req, <<>>,
                    Returned(Invalid(<<"Provider validation not implemented">>)))
    /\ UNCHANGED <<tables, rnd>>

\* An answer that takes every response of the provider for a success.
TestAnswerTrusting(provider, response) ==
    IF response.kind = "transport"
    THEN Invalid(<<"Connection failed: ", "fetch failed">>)
    ELSE Valid(provider)

\* The answer for a response of the provider; the openai branch also parses
\* the body of a 2xx response.
TestAnswer(provider, response) ==
    CASE response.kind = "transport" -> Invalid(<<"Connection failed: ", "fetch failed">>)
      [] response.kind = "http" ->
           Invalid(IF response.status = 401 THEN <<"Invalid API key">>
                   ELSE <<"API error: ", response.body>>)
      [] response.kind = "malformed" ->
           IF provider = "openai"
           THEN Invalid(<<"Connection failed: ", "Unexpected token in JSON">>)
           ELSE Valid(provider)
      [] response.kind = "ok" -> Valid(provider)

TestFetch(p, Responses) ==
    /\ At(p, "testConnection", "fetch")
    /\ \E response \in Responses :
         inv' = [inv EXCEPT
                   ![p].pc = "done",
                   ![p].calls = Append(@, Call("test", response)),
                   ![p].result = Returned(TestAnswer(inv[p].req.provider, response))]
    /\ UNCHANGED <<tables, rnd, ops, maxOps>>

(***************************************************************************)
(* The environment: what a provider may answer, and the requests tried.    *)
(***************************************************************************)
Response(kind, status, body, json, content, models) ==
    [ kind |-> kind, status |-> status, body |-> body, json |-> json,
      content |-> content, models |-> models ]

\* A 2xx answer of the chat-completion endpoint with this message content.
Completion(content) == Response("ok", 200, "", "none", content, <<>>)

\* A non-2xx answer; json tells what response.json() makes of its body.
HttpError(status, body, json) == Response("http", status, body, json, <<>>, <<>>)

\* fetch() itself throws.
TransportFailure == Response("transport", 0, "", "none", <<>>, <<>>)

\* A 2xx answer whose body has not the expected shape.
MalformedBody == Response("malformed", 200, "", "none", <<>>, <<>>)

\* A 2xx answer of a model-list endpoint.
ModelList(models) == Response("ok", 200, "", "none", <<>>, models)

FailureResponses ==
    { HttpError(401, "Incorrect API key provided", "message"),
      HttpError(500, "upstream unavailable", "unparseable"),
      HttpError(429, "{}", "nomessage"),
      TransportFailure, MalformedBody }

TitledDocument == <<"#", " ", "T", "\n", "#", " ", "1", ".", " ", "A", "\n", "x", "\n", "#", " ", "2", ".", " ", "B", " ", "c">>
BareDocument == <<"#", " ", "1", ".", " ", "A", "\n", "x", "\n", "#", " ", "2", ".", " ", "B", " ", "c", "\n">>
ProseDocument == <<"h", "e", "l", "l", "o">>

Documents == {TitledDocument, BareDocument, ProseDocument}

CompletionResponses == { Completion(d) : d \in Documents } \cup FailureResponses

CodenameResponses ==
    { Completion(<<" ", "N", "e", "b", "u", "l", "a", "\n">>), Completion(<<"?", "!">>), HttpError(500, "upstream unavailable", "unparseable"),
      TransportFailure }

UnnamedInput == <<"a", " ", "t", "o", "d", "o", " ", "a", "p", "p">>
NamedInput == <<"C", "a", "l", "l", " ", "i", "t", " ", "F", "a", "l", "c", "o", "n", ",", " ", "a", " ", "P", "D", "F", " ", "s", "u", "m", "m", "a", "r", "i", "z", "e", "r">>

GenerateRequest(userId, input, mode, wizardJsonLen, provider, model, apiKey, systemInstructionsLen) ==
    [ userId |-> userId, input |-> input, mode |-> mode, wizardJsonLen |-> wizardJsonLen,
      provider |-> provider, model |-> model, apiKey |-> apiKey,
      systemInstructionsLen |-> systemInstructionsLen ]

InlineKey == <<"s", "k", "-", "a", "b", "c", "d", "E", "F", "G", "H", "1", "2", "3", "4">>

(***************************************************************************)
(* Spec: one request slot runs the generation pipeline.                    *)
(***************************************************************************)
PipelineTargets ==
    { <<"openai", "gpt-4o">>, <<"openai", "gpt-5">>, <<"openrouter", "meta/llama">>,
      <<"zai", "glm-4.5">>, <<"mistral", "gpt-4o">> }

PipelineRequests ==
    { GenerateRequest("u1", input, "quick", 0, t[1], t[2], apiKey, sysLen) :
        input \in {UnnamedInput, NamedInput}, t \in PipelineTargets,
        apiKey \in {<<>>, InlineKey}, sysLen \in {0, 40} }

Init ==
    /\ InitStore
    /\ maxOps = MaxGenerations

GenerateSteps(p, Completions, Codenames) ==
    \/ GenUpsertUser(p)
    \/ GenResolveKey(p)
    \/ GenPrompt(p)
    \/ GenCallAI(p, Completions)
    \/ GenCodename(p, Codenames)
    \/ GenInsertPrd(p)
    \/ GenInsertSection(p)
    \/ GenLogSuccess(p)
    \/ GenCatch(p)

Next ==
    \E p \in Slots :
        \/ \E req \in PipelineRequests : StartGenerate(p, req)
        \/ GenerateSteps(p, CompletionResponses, CodenameResponses)
        \/ Return(p)

Spec == Init /\ [][Next]_vars

(***************************************************************************)
(* Properties of the generation pipeline (Spec).                          *)
(***************************************************************************)
\* The rows the invocation numbered att wrote to a table.
WrittenBy(table, att) == SelectSeq(table, LAMBDA row : row.att = att)

CompletionCalls(p) == SelectSeq(inv[p].calls, LAMBDA c : c.kind = "completion")

CodenameCalls(p) == SelectSeq(inv[p].calls, LAMBDA c : c.kind = "codename")

\* The completion call of the invocation in slot p was made and threw.
CompletionThrew(p) ==
    /\ inv[p].op = "generate"
    /\ \E i \in 1..Len(inv[p].calls) :
         inv[p].calls[i].kind = "completion" /\ inv[p].calls[i].outcome # "ok"

GenerateFailed(p) ==
    inv[p].op = "generate" /\ inv[p].pc = "done" /\ inv[p].result.status = "error"

C2_EveryFailureLogged ==
    \A p \in Slots :
        GenerateFailed(p) /\ inv[p].result.err.code # "not_found" =>
            \E i \in 1..Len(generation_logs) :
                /\ generation_logs[i].att = inv[p].att
                /\ generation_logs[i].error_message # None
                /\ generation_logs[i].has_duration

\* C9: the outbound calls of a generate invocation are, in order, at most one
\* completion call and then at most one codename call, the latter only after
\* a completion call that returned.
C9_AtMostTwoCallsInOrder ==
    \A p \in Slots :
        inv[p].op = "generate" =>
            LET calls == inv[p].calls
            IN  /\ Len(calls) <= 2
                /\ Len(CompletionCalls(p)) <= 1
                /\ Len(CodenameCalls(p)) <= 1
                /\ Len(calls) >= 1 => calls[1].kind = "completion"
                /\ Len(calls) = 2 => calls[1].outcome = "ok" /\ calls[2].kind = "codename"

\* A generation has made both calls, the codename call failing.
C9_Witness ==
    \E p \in Slots :
        /\ inv[p].op = "generate"
        /\ Len(inv[p].calls) = 2
        /\ inv[p].calls[2].kind = "codename"
        /\ inv[p].calls[2].outcome # "ok"
        /\ inv[p].pc = "done"

\* The text without its white space.
Squeeze(s) == SelectSeq(s, LAMBDA ch : ch \notin WhiteSpace)

IsPrefix(s, t) == Len(s) <= Len(t) /\ s = SubSeq(t, 1, Len(s))

\* The Sections of a Document, in section_order, concatenated.
SectionsText(prdId) ==
    LET mine == { i \in 1..Len(sections) : sections[i].prd_id = prdId }
        At_(k) == CHOOSE i \in mine : sections[i].section_order = k
    IN  Flatten([ k \in 1..Cardinality(mine) |-> sections[At_(k)].content ])

\* The generation of the Document has written all it writes.
Completed(prdId) ==
    \E i \in 1..Len(generation_logs) :
        generation_logs[i].prd_id = prdId /\ generation_logs[i].error_message = None

\* The text from its first line of the form "# N. Heading" on, empty when no
\* line has that form.
RECURSIVE JoinLines(_)
JoinLines(lines) ==
    IF lines = <<>> THEN <<>>
    ELSE IF Len(lines) = 1 THEN lines[1]
    ELSE lines[1] \o <<"\n">> \o JoinLines(Tail(lines))

FromFirstHeading(content) ==
    LET lines == splitLines(content)
        heads == { k \in 1..Len(lines) : headerMatch(lines[k]).found }
    IN  IF heads = {} THEN <<>>
        ELSE JoinLines(SubSeq(lines, CHOOSE k \in heads : \A j \in heads : k <= j, Len(lines)))

\* C10 as stated: for every persisted Document whose generation completed, the
\* concatenated Sections are the generated markdown, modulo white space.
C10_SectionsReconstructDocument ==
    \A d \in 1..Len(prds) :
        Completed(prds[d].id) =>
            Squeeze(SectionsText(prds[d].id)) = Squeeze(prds[d].generated_content)

\* C10 amended: for every persisted Document the concatenated Sections are,
\* modulo white space, a prefix of the generated markdown taken from its first
\* numbered-heading line on, and all of it once the generation completed.
C10_SectionsReconstructFromFirstHeading ==
    \A d \in 1..Len(prds) :
        LET got == Squeeze(SectionsText(prds[d].id))
            want == Squeeze(FromFirstHeading(prds[d].generated_content))
        IN  /\ IsPrefix(got, want)
            /\ Completed(prds[d].id) => got = want

\* A completed Document whose markdown opens with a title line that is in no
\* Section.
C10_Witness ==
    \E d \in 1..Len(prds) :
        /\ Completed(prds[d].id)
        /\ prds[d].generated_content = TitledDocument
        /\ Cardinality({ i \in 1..Len(sections) : sections[i].prd_id = prds[d].id }) = 2

(***************************************************************************)
(* SpecVault: keys are saved and listed, and generations resolve them.     *)
(***************************************************************************)
VaultUsers == {"u1", "u2"}

VaultProviders == {"openai", "anthropic"}

\* The API keys saved: one of each length up to MaxKeyLen.
VaultKeys == { SubSeq(InlineKey, 1, n) : n \in 1..MaxKeyLen }

WorkLabel == <<"w", "o", "r", "k">>

SaveApiKeyRequest(userId, provider, apiKey, label) ==
    [ userId |-> userId, provider |-> provider, apiKey |-> apiKey, label |-> label ]

VaultSaveRequests ==
    { SaveApiKeyRequest(u, pr, k, Some(WorkLabel)) :
        u \in VaultUsers, pr \in VaultProviders, k \in VaultKeys }

VaultGenerateRequests ==
    { GenerateRequest(u, UnnamedInput, "quick", 0, "openai", "gpt-4o", apiKey, 0) :
        u \in VaultUsers, apiKey \in {<<>>, InlineKey} }

VaultCompletions == {Completion(BareDocument), TransportFailure}

VaultCodenames == {Completion(<<"N", "e", "b", "u", "l", "a">>), TransportFailure}

InitVault ==
    /\ InitStore
    /\ maxOps = MaxVaultOps

NextVault ==
    \E p \in Slots :
        \/ \E req \in VaultSaveRequests : StartSaveApiKey(p, req)
        \/ SaveInsertUser(p)
        \/ SaveInsertKey(p)
        \/ \E u \in VaultUsers : GetApiKeys(p, [userId |-> u])
        \/ \E req \in VaultGenerateRequests : StartGenerate(p, req)
        \/ GenerateSteps(p, VaultCompletions, VaultCodenames)
        \/ Return(p)

SpecVault == InitVault /\ [][NextVault]_vars

(***************************************************************************)
(* Properties of the key vault (SpecVault).                                *)
(***************************************************************************)
\* The active StoredKey rows of (user, provider), oldest first.
ActiveKeys(userId, provider) ==
    SelectSeq(api_keys, LAMBDA k : k.user_id = userId /\ k.provider = provider /\ k.is_active)

\* The plaintext a StoredKey row was made from.
PlaintextOf(row) == utf8Decode(row.encrypted_key[4].pt)

\* The invocation in slot p is a generate that is past its key resolution.
KeyResolved(p) ==
    inv[p].op = "generate" /\ inv[p].pc \notin {"upsertUser", "resolveKey"}

\* C4: a generate that is past its key resolution has failed with not-found
\* only when the request carried no key and (user, provider) has no active
\* StoredKey; otherwise it goes on with the request's key when there is one,
\* else with the plaintext of the newest active StoredKey of (user, provider).
C4_KeyResolution ==
    \A p \in Slots :
        KeyResolved(p) =>
            LET req == inv[p].req
                stored == ActiveKeys(req.userId, req.provider)
                notFound == inv[p].result.status = "error"
                            /\ inv[p].result.err.code = "not_found"
            IN  /\ notFound => req.apiKey = <<>> /\ stored = <<>>
                /\ ~notFound /\ inv[p].pc # "done" =>
                     inv[p].loc.apiKey = IF req.apiKey # <<>> THEN req.apiKey
                                         ELSE PlaintextOf(Last(stored))

SavedPlaintexts ==
    { PlaintextOf(api_keys[i]) : i \in 1..Len(api_keys) }
        \cup { inv[p].req.apiKey : p \in { q \in Slots : inv[q].op = "saveApiKey" } }

OptionText(v) == IF v = None THEN <<>> ELSE v[1]

\* The text columns of every table (encrypted_key holds a ciphertext and is
\* no text of the model).
PersistedTexts ==
    { api_keys[i].key_hint : i \in 1..Len(api_keys) }
        \cup { OptionText(api_keys[i].label) : i \in 1..Len(api_keys) }
        \cup { prds[i].title : i \in 1..Len(prds) }
        \cup { prds[i].input_text : i \in 1..Len(prds) }
        \cup { prds[i].generated_content : i \in 1..Len(prds) }
        \cup { sections[i].content : i \in 1..Len(sections) }
        \cup { sections[i].section_type : i \in 1..Len(sections) }

\* C6: no persisted column holds the whole plaintext of an API key that was
\* passed to saveApiKey.
C6_NoPlaintextPersisted ==
    \A k \in SavedPlaintexts : \A text \in PersistedTexts : ~Contains(text, k)

(***************************************************************************)
(* SpecProber: the three handlers that take a provider key, with keys of   *)
(* the registry, a key that is no property at all and a key that only      *)
(* Object.prototype has.                                                   *)
(***************************************************************************)
ProberProviders == {"openai", "openrouter", "zai", "mistral", "constructor"}

ProviderRequest(provider, apiKey) == [provider |-> provider, apiKey |-> apiKey]

ProberRequests == { ProviderRequest(pr, InlineKey) : pr \in ProberProviders }

TestRequests == ProberRequests \cup { ProviderRequest("anthropic", InlineKey) }

ProberGenerateRequests ==
    { GenerateRequest("u1", UnnamedInput, "quick", 0, pr, "gpt-4o", apiKey, 0) :
        pr \in {"openai", "mistral", "constructor"}, apiKey \in {<<>>, InlineKey} }

\* What a model-list endpoint may answer.
ModelListResponses ==
    { ModelList(<< [id |-> "gpt-4o", context_length |-> Some(8192)],
                   [id |-> "glm-9", context_length |-> None] >>),
      ModelList(<< [id |-> "gpt-4o-mini", context_length |-> Some(0)],
                   [id |-> "davinci", context_length |-> None],
                   [id |-> "gpt-4o", context_length |-> Some(4096)] >>),
      ModelList(<< [id |-> "davinci", context_length |-> None] >>),
      ModelList(<< >>) } \cup FailureResponses

ProbeResponses == {Completion(<<"o", "k">>)} \cup FailureResponses

InitProber ==
    /\ InitStore
    /\ maxOps = MaxProberOps

NextProber ==
    \E p \in Slots :
        \/ \E req \in ProberRequests : StartListProviderModels(p, req)
        \/ ListFetchModels(p, ModelListResponses)
        \/ ListProbe(p, ProbeResponses)
        \/ \E req \in TestRequests : StartTestConnection(p, req)
        \/ TestFetch(p, ProbeResponses)
        \/ \E req \in ProberGenerateRequests : StartGenerate(p, req)
        \/ GenerateSteps(p, VaultCompletions, VaultCodenames)
        \/ Return(p)

SpecProber == InitProber /\ [][NextProber]_vars

(***************************************************************************)
(* Properties of the handlers that take a provider key (SpecProber).       *)
(***************************************************************************)
\* The invocation in slot p has ended, for a provider key that is not in the
\* registry.
EndedForUnregistered(p) ==
    /\ inv[p].op \in {"listProviderModels", "testConnection", "generate"}
    /\ inv[p].pc = "done"
    /\ inv[p].req.provider \notin DOMAIN AI_PROVIDERS

\* C7: listProviderModels, testConnection and generate, called with a provider
\* key that is not in the registry, end with an invalid-argument error.
C7_UnregisteredProviderRejected ==
    \A p \in Slots :
        EndedForUnregistered(p) =>
            /\ inv[p].result.status = "error"
            /\ inv[p].result.err.api
            /\ inv[p].result.err.code = "invalid_argument"

\* C8: a step that leaves a slot in a listProviderModels invocation changes
\* no table, and the invocation has made at most one outbound call.
C8_ListProviderModelsOneCallNoWrite ==
    [][ \A p \in Slots :
          inv'[p].op = "listProviderModels" =>
              /\ tables' = tables
              /\ Len(inv'[p].calls) <= 1 ]_vars

\* A listProviderModels invocation has made its call and ended, in a store
\* that an earlier generation wrote to.
C8_Witness ==
    \E p \in Slots :
        /\ inv[p].op = "listProviderModels"
        /\ inv[p].pc = "done"
        /\ Len(inv[p].calls) = 1
        /\ Len(generation_logs) > 0

(***************************************************************************)
(* SpecContext: generations whose prompt and input together are as long as *)
(* the budget of the model's context window, a little shorter or a little  *)
(* longer.                                                                 *)
(***************************************************************************)
ContextTargets ==
    { <<"openai", "gpt-4o">>, <<"moonshot", "moonshot-v1-8k">>,
      <<"google", "gemini-1.5-pro-latest">>, <<"openrouter", "meta/llama">> }

\* The context window the handler reckons with for a target.
TargetWindow(t) ==
    IF t[1] = "openrouter" THEN DefaultOpenRouterContextWindow
    ELSE FindModel(t[1], t[2])[1].contextWindow

\* The longest prompt + input, in characters, whose estimate is within 60% of
\* the window.
BudgetChars(t) == 4 * ((6 * TargetWindow(t)) \div 10)

Slack == (0 - ContextSlack)..ContextSlack

\* Quick mode, the caller's system instructions making up the length.
ContextQuickRequests ==
    { GenerateRequest("u1", UnnamedInput, "quick", 0, t[1], t[2], InlineKey,
                      BudgetChars(t) + d - Len(UnnamedInput)) :
        t \in ContextTargets, d \in Slack }

\* Wizard mode with the stored prompt, the wizard data making up the length.
ContextWizardRequests ==
    { GenerateRequest("u1", UnnamedInput, "wizard",
                      BudgetChars(t) + d - Len(UnnamedInput) - WizardHeaderLen - MainPromptLen,
                      t[1], t[2], InlineKey, 0) :
        t \in ContextTargets, d \in Slack }

InitContext ==
    /\ InitStore
    /\ maxOps = MaxGenerations

NextContext ==
    \E p \in Slots :
        \/ \E req \in ContextQuickRequests \cup ContextWizardRequests : StartGenerate(p, req)
        \/ GenerateSteps(p, VaultCompletions, VaultCodenames)
        \/ Return(p)

SpecContext == InitContext /\ [][NextContext]_vars

(***************************************************************************)
(* Properties of the context-window check (SpecContext).                   *)
(***************************************************************************)
CeilDiv(n, d) == (n \div d) + (IF n % d = 0 THEN 0 ELSE 1)

\* The characters of prompt + input of a request.
RequestChars(req) ==
    (IF req.systemInstructionsLen > 0 THEN req.systemInstructionsLen ELSE MainPromptLen)
        + Len(req.input)
        + (IF req.mode = "wizard" /\ req.wizardJsonLen > 0
           THEN WizardHeaderLen + req.wizardJsonLen ELSE 0)

\* ceil(length / 4) is greater than 0.6 times the model's context window.
OverBudget(req) ==
    5 * CeilDiv(RequestChars(req), 4) > 3 * TargetWindow(<<req.provider, req.model>>)

\* The invocation in slot p has ended with the invalid-argument error of the
\* context-window check.
RejectedTooLong(p) ==
    /\ GenerateFailed(p)
    /\ inv[p].result.err = APIError("invalid_argument",
                                    <<"Input too long for selected model context window">>)

\* The request has no system instructions and the store no active 'main'
\* prompt: the handler fails before it measures anything.
PromptMissing(req) ==
    /\ req.systemInstructionsLen = 0
    /\ \A i \in 1..Len(system_prompts) :
         ~(system_prompts[i].prompt_key = "main" /\ system_prompts[i].is_active)

\* C3: a generate that has come to the context-window check has been rejected
\* as too long exactly when the provider is not openrouter and
\* ceil(length(prompt + input) / 4) > 0.6 x context window; a rejected one has
\* made no outbound call and written no prds row.
C3_RejectedExactlyWhenOverBudget ==
    \A p \in Slots :
        inv[p].op = "generate" /\ inv[p].pc \notin {"upsertUser", "resolveKey", "prompt"}
            /\ ~PromptMissing(inv[p].req) =>
            /\ RejectedTooLong(p) <=>
                   (inv[p].req.provider # "openrouter" /\ OverBudget(inv[p].req))
            /\ RejectedTooLong(p) =>
                   inv[p].calls = <<>> /\ WrittenBy(prds, inv[p].att) = <<>>

\* A generation was rejected for an estimate one token above the budget,
\* its text being one character longer than the budget's.
C3_Witness ==
    \E p \in Slots :
        /\ RejectedTooLong(p)
        /\ RequestChars(inv[p].req)
             = BudgetChars(<<inv[p].req.provider, inv[p].req.model>>) + 1
        /\ inv[p].req.mode = "wizard"

(***************************************************************************)
(* SpecParse: parseSections applied to documents of up to MaxLines lines.  *)
(***************************************************************************)
\* The lines documents are made of: headings, near-headings and body lines.
ParseLineChoices ==
    { <<"#", " ", "1", ".", " ", "A">>,
      <<"#", " ", "2", ".", " ", "B", " ", " ", "c">>,
      <<"#", " ", "1", "2", ".", "\t", "D", " ", "e", " ">>,
      <<"#", " ", "3", ".", " ", " ">>,
      <<"#", "1", ".", " ", "A">>,
      <<" ", "#", " ", "1", ".", " ", "A">>,
      <<"#", " ", "1", ".", " ", "A", "\r">>,
      <<"x">>,
      << >> }

RECURSIVE JoinWith(_, _)
JoinWith(lines, sep) ==
    IF lines = <<>> THEN <<>>
    ELSE IF Len(lines) = 1 THEN lines[1]
    ELSE lines[1] \o sep \o JoinWith(Tail(lines), sep)

ParseDocuments ==
    UNION { { JoinWith(ls, <<"\n">>) : ls \in [1..n -> ParseLineChoices] } : n \in 1..MaxLines }

\* parseSections(content), called with a document.
ParseSectionsCall(p, content) ==
    /\ Begin(p, "parseSections", "done", [content |-> content], <<>>,
             Returned(parseSections(content)))
    /\ UNCHANGED <<tables, rnd>>

InitParse ==
    /\ InitStore
    /\ maxOps = MaxParses

NextParse ==
    \E p \in Slots :
        \/ \E content \in ParseDocuments : ParseSectionsCall(p, content)
        \/ Return(p)

SpecParse == InitParse /\ [][NextParse]_vars

(***************************************************************************)
(* Properties of parseSections (SpecParse).                                *)
(***************************************************************************)
\* The text from place k on, with its white space runs turned into one sep
\* each and its letters into lower case.
RECURSIVE LowerJoinedFrom(_, _, _)
LowerJoinedFrom(s, sep, k) ==
    IF k > Len(s) THEN <<>>
    ELSE (IF s[k] \notin WhiteSpace THEN <<toLowerCaseChar(s[k])>>
          ELSE IF k > 1 /\ s[k - 1] \in WhiteSpace THEN <<>>
          ELSE <<sep>>) \o LowerJoinedFrom(s, sep, k + 1)

\* The places of the lines that match the numbered-heading pattern.
HeadingPlaces(lines) == { k \in 1..Len(lines) : headerMatch(lines[k]).found }

\* The i-th of a set of places, in increasing order.
NthPlace(places, i) == CHOOSE k \in places : Cardinality({ j \in places : j < k }) = i - 1

\* The place after the last line of the section that starts at the i-th heading.
SectionEnd(lines, places, i) ==
    IF i = Cardinality(places) THEN Len(lines) + 1 ELSE NthPlace(places, i + 1)

\* One section per heading line, in order, typed by its heading, holding the
\* lines from its heading up to the next one, each followed by a line feed.
SectionsFollowHeadings(content, secs) ==
    LET lines == splitLines(content)
        places == HeadingPlaces(lines)
    IN  /\ Len(secs) = Cardinality(places)
        /\ \A i \in 1..Len(secs) :
             /\ secs[i].type
                  = LowerJoinedFrom(headerMatch(lines[NthPlace(places, i)]).group[1], "_", 1)
             /\ secs[i].content
                  = JoinWith(SubSeq(lines, NthPlace(places, i),
                                    SectionEnd(lines, places, i) - 1), <<"\n">>) \o <<"\n">>

SectionsContent(secs) == Flatten([ i \in 1..Len(secs) |-> secs[i].content ])

Parsed(p) == inv[p].op = "parseSections" /\ inv[p].pc = "done"

\* C11 as stated: one section per heading line, in order and typed by its
\* heading, no line before the first heading in a section, and the sections'
\* content is, concatenated, the body from the first heading on.
C11_SectionsReproduceBody ==
    \A p \in Slots :
        Parsed(p) =>
            LET content == inv[p].req.content
                secs == inv[p].result.value
            IN  /\ SectionsFollowHeadings(content, secs)
                /\ SectionsContent(secs) = FromFirstHeading(content)

\* C11 amended: as above, but the concatenated content is the body from the
\* first heading on followed by one line feed (and empty when no line is a
\* heading).
C11_SectionsReproduceBodyAndLineFeed ==
    \A p \in Slots :
        Parsed(p) =>
            LET content == inv[p].req.content
                secs == inv[p].result.value
                places == HeadingPlaces(splitLines(content))
            IN  /\ SectionsFollowHeadings(content, secs)
                /\ SectionsContent(secs)
                     = IF places = {} THEN <<>> ELSE FromFirstHeading(content) \o <<"\n">>

\* A body line, then two headings: two sections, the second one typed from a
\* heading with a run of two spaces.
C11_Witness ==
    \E p \in Slots :
        /\ Parsed(p)
        /\ inv[p].req.content
             = <<"x", "\n", "#", " ", "1", ".", " ", "A", "\n",
                 "#", " ", "2", ".", " ", "B", " ", " ", "c">>
        /\ Len(inv[p].result.value) = 2
        /\ inv[p].result.value[2].type = <<"b", "_", "c">>

(***************************************************************************)
(* SpecNaming: generations whose input names the product or does not, and  *)
(* whose codename call is answered in every way.                           *)
(***************************************************************************)
\* 'a todo app' and 'Call it Falcon, a PDF summarizer' are UnnamedInput and
\* NamedInput; the others put a keyword before a colon, a quoted name, a
\* keyword inside a word, a name followed by a space, and only a space.
ColonInput == <<"n", "a", "m", "e", ":", " ", "X">>
QuotedInput == <<"T", "i", "t", "l", "e", " ", "'", "M", "y", " ", " ", "A", "p", "p", "'", " ", "n", "o", "w">>
CallingInput == <<"c", "a", "l", "l", "i", "n", "g", " ", "A", "P", "I", "s">>
SpacedInput == <<"N", "a", "m", "e", " ", "t", "h", "e", " ", "a", "p", "p", " ", "B", "l", "u", "e", " ", "S", "k", "y", " ", "!">>
BlankInput == <<"a", " ", "c", "a", "l", "l", " ", "!">>

NamingInputs ==
    { UnnamedInput, NamedInput, ColonInput, QuotedInput, CallingInput, SpacedInput, BlankInput }

\* Documents whose title has an empty slug, and a slug of more than 30
\* characters.
PunctuationDocument == <<"#", " ", "?", "!", "\n", "#", " ", "1", ".", " ", "A">>
LongTitleDocument ==
    <<"#", " ", "T", "h", "e", " ", " ", "Q", "u", "i", "c", "k", " ", "B", "r", "o", "w", "n", ":", " ", "F", "o", "x", " ", "J", "u", "m", "p", "s", " ", "O", "v", "e", "r", " ", "9", "\n", "x">>

NamingCompletions ==
    { Completion(d) : d \in {TitledDocument, BareDocument, ProseDocument,
                             PunctuationDocument, LongTitleDocument} }
      \cup { TransportFailure }

NamingCodenames == CodenameResponses \cup FailureResponses

NamingRequests ==
    { GenerateRequest("u1", input, "quick", 0, "openai", "gpt-4o", InlineKey, 0) :
        input \in NamingInputs }

InitNaming ==
    /\ InitStore
    /\ maxOps = MaxNamings

NextNaming ==
    \E p \in Slots :
        \/ \E req \in NamingRequests : StartGenerate(p, req)
        \/ GenerateSteps(p, NamingCompletions, NamingCodenames)
        \/ Return(p)

SpecNaming == InitNaming /\ [][NextNaming]_vars

(***************************************************************************)
(* Properties of the file name (SpecNaming).                               *)
(***************************************************************************)
NamingKeywords ==
    { <<"n", "a", "m", "e">>, <<"t", "i", "t", "l", "e">>, <<"c", "a", "l", "l">>,
      <<"c", "a", "l", "l", "e", "d">> }

\* The word w stands at place i of s, in any letter case.
OccursAt(s, w, i) ==
    /\ i + Len(w) - 1 <= Len(s)
    /\ \A k \in 1..Len(w) : toLowerCaseChar(s[i + k - 1]) = w[k]

\* The text holds a naming phrase: a keyword followed by a character of a
\* name, with an optional quote between them.
HasNamingPhrase(s) ==
    \E w \in NamingKeywords, i \in 1..Len(s) :
        /\ OccursAt(s, w, i)
        /\ LET j == i + Len(w)
           IN  \/ j <= Len(s) /\ s[j] \in NameChars
               \/ j + 1 <= Len(s) /\ s[j] \in {"\"", "'"} /\ s[j + 1] \in NameChars

\* The text between its first and its last character that is not white space.
Trimmed(s) ==
    LET inked == { k \in 1..Len(s) : s[k] \notin WhiteSpace }
    IN  IF inked = {} THEN <<>>
        ELSE SubSeq(s, CHOOSE k \in inked : \A j \in inked : k <= j,
                       CHOOSE k \in inked : \A j \in inked : j <= k)

\* The slug of a name: trimmed, lower-cased, white space runs as one '-'.
NameSlug(name) == LowerJoinedFrom(Trimmed(name), "-", 1)

\* The completion call of the invocation in slot p returned a document and
\* generateFilename has returned.
FilenameDerived(p) ==
    /\ inv[p].op = "generate"
    /\ inv[p].pc # "codename"
    /\ \E i \in 1..Len(inv[p].calls) :
         inv[p].calls[i].kind = "completion" /\ inv[p].calls[i].outcome = "ok"

\* C12: when the input holds a naming phrase no codename call is issued and
\* the file name is the slug of the captured name followed by '-prd.md';
\* when it holds none, the file name comes after exactly one codename call.
C12_NamedInputNeedsNoCodename ==
    \A p \in Slots :
        inv[p].op = "generate" =>
            LET input == inv[p].req.input
            IN  IF HasNamingPhrase(input)
                THEN /\ CodenameCalls(p) = <<>>
                     /\ inv[p].pc # "codename"
                     /\ FilenameDerived(p) =>
                          /\ inv[p].loc.filename
                               = NameSlug(nameMatch(input).group[1]) \o PrdSuffix
                          /\ inv[p].result.status = "ok" =>
                               inv[p].result.value.filename = inv[p].loc.filename
                ELSE FilenameDerived(p) => Len(CodenameCalls(p)) = 1

\* 'Call it Falcon, a PDF summarizer' returned 'falcon-prd.md' and 'Name the
\* app Blue Sky !' was given 'blue-sky-prd.md', both without a codename call.
C12_Witness ==
    \E p \in Slots :
        /\ FilenameDerived(p)
        /\ CodenameCalls(p) = <<>>
        /\ \/ /\ inv[p].req.input = NamedInput
              /\ inv[p].result.status = "ok"
              /\ inv[p].result.value.filename
                   = <<"f", "a", "l", "c", "o", "n">> \o PrdSuffix
           \/ /\ inv[p].req.input = SpacedInput
              /\ inv[p].loc.filename
                   = <<"b", "l", "u", "e", "-", "s", "k", "y">> \o PrdSuffix

\* The codename call of the invocation in slot p was made and gave no
\* codename: a non-2xx response, a transport error or a malformed body.
CodenameFailed(p) ==
    /\ inv[p].op = "generate"
    /\ \E i \in 1..Len(inv[p].calls) :
         inv[p].calls[i].kind = "codename" /\ inv[p].calls[i].outcome # "ok"

\* The slug of a title: its letters, digits and white space, lower-cased,
\* white space runs as one '-', cut after 30 characters.
TitleSlug(title) ==
    LET kept == SelectSeq(title, LAMBDA ch : ch \in Letters \cup Digits \cup WhiteSpace)
        slug == LowerJoinedFrom(kept, "-", 1)
    IN  [ k \in 1..(IF Len(slug) > 30 THEN 30 ELSE Len(slug)) |-> slug[k] ]

FallbackFilename(title) ==
    (IF TitleSlug(title) = <<>> THEN <<"u", "n", "t", "i", "t", "l", "e", "d">>
     ELSE TitleSlug(title)) \o PrdSuffix

\* C13: after a failed codename call the invocation goes on to persist the
\* Document under the file name made of the title's slug, or of 'untitled'
\* when that slug is empty; it fails only if a statement of the persistence
\* fails, and what it returns carries that file name and the persisted
\* Document.
C13_CodenameFailureFallsBack ==
    \A p \in Slots :
        CodenameFailed(p) =>
            /\ inv[p].pc \in {"insertPrd", "insertSection", "logSuccess", "catch", "done"}
            /\ inv[p].loc.filename = FallbackFilename(extractTitle(inv[p].loc.content))
            /\ inv[p].pc = "catch" => inv[p].loc.err = DbError
            /\ GenerateFailed(p) => inv[p].result.err = Rethrown(DbError)
            /\ inv[p].pc = "done" /\ ~GenerateFailed(p) =>
                 /\ inv[p].result.value.filename = inv[p].loc.filename
                 /\ \E d \in 1..Len(prds) :
                      /\ prds[d].id = inv[p].result.value.prdId
                      /\ prds[d].att = inv[p].att
                      /\ prds[d].generated_content = inv[p].result.value.content

\* A codename call answered by a malformed body, for a document titled '?!':
\* the generation returned 'untitled-prd.md'; and one for a long title, cut.
C13_Witness ==
    \E p \in Slots :
        /\ CodenameFailed(p)
        /\ inv[p].pc = "done"
        /\ inv[p].result.status = "ok"
        /\ \/ /\ inv[p].calls[2].outcome = "malformed"
              /\ inv[p].loc.content = PunctuationDocument
              /\ inv[p].result.value.filename
                   = <<"u", "n", "t", "i", "t", "l", "e", "d">> \o PrdSuffix
           \/ /\ inv[p].calls[2].outcome = "http"
              /\ inv[p].loc.content = LongTitleDocument
              /\ Len(inv[p].result.value.filename) = 30 + Len(PrdSuffix)

(***************************************************************************)
(* Properties of the rows' references (SpecVault).                         *)
(***************************************************************************)
\* The user ids the rows of a table refer to.
UserRefs(table) == { table[i].user_id : i \in 1..Len(table) }

\* C14: every prds, api_keys and generation_logs row refers to a users row
\* that exists, and every sections row to a prds row that exists.
C14_RowsReferToExistingRows ==
    /\ UserRefs(prds) \cup UserRefs(api_keys) \cup UserRefs(generation_logs) \subseteq users
    /\ \A i \in 1..Len(sections) :
         \E d \in 1..Len(prds) : prds[d].id = sections[i].prd_id

\* Keys were saved and a generation persisted a Document with Sections, while
\* another generation failed and was logged.
C14_Witness ==
    /\ api_keys # <<>>
    /\ prds # <<>>
    /\ sections # <<>>
    /\ \E i \in 1..Len(generation_logs) : generation_logs[i].error_message # None

(***************************************************************************)
(* SpecRace: two requests of the same user are served at the same time,    *)
(* their statements interleaved in every order.                            *)
(***************************************************************************)
RaceSlots == {1, 2}

RaceUser == "u1"

RaceSaveRequests ==
    { SaveApiKeyRequest(RaceUser, "openai", InlineKey, Some(WorkLabel)) }

RaceGenerateRequests ==
    { GenerateRequest(RaceUser, UnnamedInput, "quick", 0, "openai", "gpt-4o", apiKey, 0) :
        apiKey \in {<<>>, InlineKey} }

RaceCompletions == {Completion(BareDocument), TransportFailure}

RaceCodenames == {Completion(<<"N", "e", "b", "u", "l", "a">>)}

InitRace ==
    /\ InitTables
    /\ inv = [p \in RaceSlots |-> Idle]
    /\ maxOps = MaxRaceOps

NextRace ==
    \E p \in RaceSlots :
        \/ \E req \in RaceSaveRequests : StartSaveApiKey(p, req)
        \/ SaveInsertUser(p)
        \/ SaveInsertKey(p)
        \/ \E req \in RaceGenerateRequests : StartGenerate(p, req)
        \/ GenerateSteps(p, RaceCompletions, RaceCodenames)
        \/ Return(p)

SpecRace == InitRace /\ [][NextRace]_vars

(***************************************************************************)
(* Properties of concurrent requests (SpecRace).                           *)
(***************************************************************************)
\* The invocation in slot p has executed its statement on the users table.
PastUserUpsert(p) ==
    \/ inv[p].op = "saveApiKey" /\ inv[p].pc # "insertUser"
    \/ inv[p].op = "generate" /\ inv[p].pc # "upsertUser"

\* What makes a generation fail when it runs alone: no key, no prompt, a
\* failed completion call or a failed statement of the persistence.
FailedOnItsOwn(p) ==
    \/ inv[p].req.apiKey = <<>> /\ inv[p].result.err.code = "not_found"
    \/ PromptMissing(inv[p].req) /\ inv[p].result.err.msg = <<"System prompt not found">>
    \/ CompletionThrew(p)
    \/ inv[p].result.err = Rethrown(DbError)

\* C15: whatever the interleaving, once an invocation has executed its
\* statement on the users table that table holds the row of the user, and
\* only that one; a saveApiKey invocation never fails, and a generate
\* invocation fails only for what makes it fail when it runs alone.
C15_ConcurrentUpsertsHarmless ==
    \A p \in RaceSlots :
        /\ PastUserUpsert(p) => users = {RaceUser}
        /\ inv[p].op = "saveApiKey" /\ inv[p].pc = "done" => inv[p].result.status = "ok"
        /\ GenerateFailed(p) => FailedOnItsOwn(p)

\* A generate and a saveApiKey invocation of the same user were in flight
\* together and both returned.
C15_Witness ==
    \E p, q \in RaceSlots :
        /\ inv[p].op = "generate" /\ inv[p].pc = "done" /\ inv[p].result.status = "ok"
        /\ inv[q].op = "saveApiKey" /\ inv[q].pc = "done" /\ inv[q].result.status = "ok"
        /\ users = {RaceUser}

(***************************************************************************)
(* Properties of the errors of generate (Spec).                            *)
(***************************************************************************)
\* The invocation in slot p has ended after its completion call was answered
\* by a non-2xx response.
EndedOnHttpError(p) ==
    /\ inv[p].op = "generate"
    /\ inv[p].pc = "done"
    /\ inv[p].calls # <<>>
    /\ inv[p].calls[1].kind = "completion"
    /\ inv[p].calls[1].outcome = "http"

C17_EveryGenerateErrorClassified ==
    \A p \in Slots :
        GenerateFailed(p) =>
            LET err == inv[p].result.err
            IN  /\ err.api
                /\ \/ err.code = "not_found" /\ inv[p].req.apiKey = <<>>
                   \/ err.code = "invalid_argument"
                   \/ err.code = "internal"

\* The listProviderModels invocation in slot p has ended after its call, the
\* model-list call or the validation probe, was answered by a non-2xx response.
ListEndedOnHttpError(p) ==
    /\ inv[p].op = "listProviderModels"
    /\ inv[p].pc = "done"
    /\ inv[p].calls # <<>>
    /\ inv[p].calls[1].outcome = "http"

\* C18: a non-2xx answer to the call of listProviderModels ends the operation
\* with an unauthenticated error whatever the status and the body: its
\* message is the provider's own when the body is parseable and carries one,
\* the generic invalid-key message otherwise.
C18_NonOkIsUnauthenticated ==
    \A p \in Slots :
        ListEndedOnHttpError(p) =>
            LET response == inv[p].calls[1].response
                err == inv[p].result.err
            IN  /\ inv[p].result.status = "error"
                /\ err.api
                /\ err.code = "unauthenticated"
                /\ err.msg = IF response.json = "message" THEN <<response.body>>
                             ELSE <<"Invalid ", AI_PROVIDERS[inv[p].req.provider].name, " API key">>

\* The listProviderModels invocation in slot p has ended after its model-list
\* call was answered by a list of model identifiers.
ListEndedOnModelList(p) ==
    /\ inv[p].op = "listProviderModels"
    /\ inv[p].pc = "done"
    /\ inv[p].calls # <<>>
    /\ inv[p].calls[1].kind = "models"
    /\ inv[p].calls[1].outcome = "ok"

\* The identifiers a model-list payload names.
PayloadIds(payload) == { payload[i].id : i \in 1..Len(payload) }

\* C19: for the flat-list shapes listProviderModels returns the catalog
\* entries whose name is among the identifiers of the provider's list, in
\* catalog order and as the catalog holds them, and fails with not-found when
\* there is none.
C19_CatalogIntersection ==
    \A p \in Slots :
        ListEndedOnModelList(p)
          /\ AI_PROVIDERS[inv[p].req.provider].modelList.responseFormat # "openrouter" =>
            LET catalog == AI_PROVIDERS[inv[p].req.provider].models
                ids == PayloadIds(inv[p].calls[1].response.models)
                places == { k \in 1..Len(catalog) : catalog[k].name \in ids }
                result == inv[p].result
            IN  IF places = {}
                THEN /\ result.status = "error"
                     /\ result.err.api
                     /\ result.err.code = "not_found"
                ELSE /\ result.status = "ok"
                     /\ Len(result.value) = Cardinality(places)
                     /\ \A i \in 1..Len(result.value) :
                          result.value[i] = catalog[NthPlace(places, i)]

\* A list that names gpt-4o-mini before gpt-4o, and a model the catalog has
\* not: the two catalog entries are returned in catalog order.
C19_Witness ==
    \E p \in Slots :
        /\ ListEndedOnModelList(p)
        /\ inv[p].req.provider = "openai"
        /\ Len(inv[p].calls[1].response.models) = 3
        /\ inv[p].calls[1].response.models[1].id = "gpt-4o-mini"
        /\ inv[p].result.status = "ok"
        /\ inv[p].result.value = << [name |-> "gpt-4o", contextWindow |-> 128000],
                                    [name |-> "gpt-4o-mini", contextWindow |-> 128000] >>

\* C20: for the aggregator shape every model of the payload is returned with
\* the context length the payload gives for it, and with 4096 when the
\* payload gives none.
C20_MissingContextLengthIs4096 ==
    \A p \in Slots :
        ListEndedOnModelList(p)
          /\ AI_PROVIDERS[inv[p].req.provider].modelList.responseFormat = "openrouter" =>
            LET payload == inv[p].calls[1].response.models
                result == inv[p].result
            IN  /\ result.status = "ok"
                /\ \A i \in 1..Len(payload) :
                     \E j \in 1..Len(result.value) :
                        /\ result.value[j].name = payload[i].id
                        /\ result.value[j].contextWindow
                             = IF payload[i].context_length = None THEN 4096
                               ELSE payload[i].context_length[1]

(***************************************************************************)
(* SpecCrypto: keys are encrypted, the payload is altered or not, and      *)
(* decrypted under the same or another secret.                             *)
(***************************************************************************)
CryptoUnits == {"k", HighSurrogate, LowSurrogate, ReplacementChar}

\* The plaintexts: every text of up to MaxPlainLen units, the empty one included.
CryptoPlaintexts == UNION { [1..n -> CryptoUnits] : n \in 0..MaxPlainLen }

CryptoSecrets == { <<"s">>, <<"t">>, <<HighSurrogate>>, <<LowSurrogate>> }

\* The payload with its last bytes altered: those of the ciphertext, or of
\* the tag when the ciphertext is empty.
AlteredPayloads(payload) ==
    IF payload[4].pt = <<>>
    THEN { <<payload[1], payload[2], <<"tag", "altered">>, payload[4]>> }
    ELSE { <<payload[1], payload[2], payload[3],
             [payload[4] EXCEPT !.pt = [@ EXCEPT ![Len(@)] = other]]>> :
             other \in {"k", "j"} \ {payload[4].pt[Len(payload[4].pt)]} }

\* encryptApiKey(apiKey, userSecret)
CryptoEncrypt(p, apiKey, userSecret) ==
    /\ Begin(p, "crypto", "encrypted", [apiKey |-> apiKey, userSecret |-> userSecret],
             [ payload |-> encryptApiKey(apiKey, userSecret, <<"salt", rnd + 1>>,
                                         <<"iv", rnd + 2>>),
               altered |-> FALSE, secret |-> userSecret ], Pending)
    /\ rnd' = rnd + 2
    /\ UNCHANGED tables

\* The stored payload is altered.
CryptoAlter(p) ==
    /\ At(p, "crypto", "encrypted")
    /\ ~inv[p].loc.altered
    /\ \E payload \in AlteredPayloads(inv[p].loc.payload) :
         Goto(p, "encrypted", [inv[p].loc EXCEPT !.payload = payload, !.altered = TRUE])
    /\ UNCHANGED <<tables, rnd, ops, maxOps>>

\* decryptApiKey(payload, userSecret)
CryptoDecrypt(p, userSecret) ==
    LET d == decryptApiKey(inv[p].loc.payload, userSecret)
    IN  /\ At(p, "crypto", "encrypted")
        /\ inv' = [inv EXCEPT
                     ![p].pc = "done",
                     ![p].loc.secret = userSecret,
                     ![p].result = IF d.ok THEN Returned(d.value)
                                   ELSE Raised(JsError("Error",
                                          <<"Unsupported state or unable to authenticate data">>))]
        /\ UNCHANGED <<tables, rnd, ops, maxOps>>

InitCrypto ==
    /\ InitStore
    /\ maxOps = MaxCryptoOps

NextCrypto ==
    \E p \in Slots :
        \/ \E apiKey \in CryptoPlaintexts, userSecret \in CryptoSecrets :
              CryptoEncrypt(p, apiKey, userSecret)
        \/ CryptoAlter(p)
        \/ \E userSecret \in CryptoSecrets : CryptoDecrypt(p, userSecret)
        \/ Return(p)

SpecCrypto == InitCrypto /\ [][NextCrypto]_vars

(***************************************************************************)
(* Properties of the cipher (SpecCrypto).                                  *)
(***************************************************************************)
\* The payload of slot p was decrypted as it was made, under the secret it
\* was made with.
RoundTrip(p) ==
    /\ inv[p].op = "crypto"
    /\ inv[p].pc = "done"
    /\ ~inv[p].loc.altered
    /\ inv[p].loc.secret = inv[p].req.userSecret

\* The place k of the text holds a surrogate without its other half.
UnpairedAt(text, k) ==
    \/ /\ text[k] = HighSurrogate
       /\ ~(k < Len(text) /\ text[k + 1] = LowSurrogate)
    \/ /\ text[k] = LowSurrogate
       /\ ~(k > 1 /\ text[k - 1] = HighSurrogate)

\* The text with U+FFFD in the place of every unpaired surrogate.
Scrubbed(text) ==
    [ k \in 1..Len(text) |-> IF UnpairedAt(text, k) THEN ReplacementChar ELSE text[k] ]

WellFormed(text) == \A k \in 1..Len(text) : ~UnpairedAt(text, k)

DecryptedAfterChange(p) ==
    /\ inv[p].op = "crypto"
    /\ inv[p].pc = "done"
    /\ inv[p].loc.altered \/ inv[p].loc.secret # inv[p].req.userSecret

TestEnded(p) ==
    /\ inv[p].op = "testConnection"
    /\ inv[p].pc = "done"
    /\ inv[p].req.provider \in DOMAIN AI_PROVIDERS

\* C23: for a registered provider testConnection never raises; after a
\* non-2xx response or a transport failure it returns valid=false with an
\* error message, 'Invalid API key' when the status is 401; it returns
\* valid=true only after a 2xx response, with the name and the context window
\* of the provider's first catalog model.
C23_TestConnectionNeverRaises ==
    \A p \in Slots :
        TestEnded(p) =>
            LET answer == inv[p].result.value
                calls == inv[p].calls
            IN  /\ inv[p].result.status = "ok"
                /\ Len(calls) <= 1
                /\ calls # <<>> /\ calls[1].outcome \in {"http", "transport"} =>
                     /\ ~answer.valid
                     /\ answer.error # <<>>
                     /\ calls[1].response.status = 401 => answer.error = <<"Invalid API key">>
                /\ answer.valid =>
                     /\ calls # <<>>
                     /\ calls[1].response.status \in 200..299
                     /\ answer.model = AI_PROVIDERS[inv[p].req.provider].models[1].name
                     /\ answer.contextWindow
                          = AI_PROVIDERS[inv[p].req.provider].models[1].contextWindow

\* A key test answered 401 returned 'Invalid API key', and one answered 2xx
\* returned the first catalog model.
C23_Witness ==
    \E p \in Slots :
        /\ TestEnded(p)
        /\ inv[p].calls # <<>>
        /\ \/ /\ inv[p].calls[1].response.status = 401
              /\ inv[p].result.value.error = <<"Invalid API key">>
           \/ /\ inv[p].result.value.valid
              /\ inv[p].result.value.model = "claude-3-5-sonnet-20241022"

(***************************************************************************)
(* Properties of the persistence of generate (Spec).                       *)
(***************************************************************************)
\* The success rows among the generation_logs rows the invocation att wrote.
SuccessLogs(att) ==
    SelectSeq(generation_logs, LAMBDA row : row.att = att /\ row.error_message = None)

FailureLogs(att) ==
    SelectSeq(generation_logs, LAMBDA row : row.att = att /\ row.error_message # None)

\* C24: in every state, what an invocation has written is a prefix of: its
\* Document row, then its Section rows in heading order, numbered 1..n
\* without a gap, then one success GenerationLog row that refers to the
\* Document; a successful generation has written all of it.
C24_WritesInOrder ==
    \A att \in 1..ops :
        LET docs == WrittenBy(prds, att)
            secs == WrittenBy(sections, att)
            logs == SuccessLogs(att)
        IN  /\ Len(docs) <= 1
            /\ Len(logs) <= 1
            /\ secs # <<>> \/ logs # <<>> => Len(docs) = 1
            /\ docs # <<>> =>
                 LET parsed == parseSections(docs[1].generated_content)
                 IN  /\ Len(secs) <= Len(parsed)
                     /\ \A i \in 1..Len(secs) :
                          /\ secs[i].prd_id = docs[1].id
                          /\ secs[i].section_order = i
                          /\ secs[i].section_type = parsed[i].type
                          /\ secs[i].content = parsed[i].content
                     /\ logs # <<>> =>
                          /\ Len(secs) = Len(parsed)
                          /\ logs[1].prd_id = docs[1].id
            /\ \A p \in Slots :
                 inv[p].att = att /\ inv[p].op = "generate" /\ inv[p].result.status = "ok" =>
                    /\ Len(docs) = 1
                    /\ Len(logs) = 1
                    /\ inv[p].result.value.prdId = docs[1].id

\* A generation returned after it wrote a Document, two Sections and the
\* success log.
C24_Witness ==
    \E p \in Slots :
        /\ inv[p].op = "generate"
        /\ inv[p].result.status = "ok"
        /\ Len(WrittenBy(sections, inv[p].att)) = 2
        /\ WrittenBy(sections, inv[p].att)[2].section_type = <<"b", "_", "c">>
        /\ Len(SuccessLogs(inv[p].att)) = 1

(***************************************************************************)
(* SpecPrompt: generations over stores whose 'main' prompt was revised,    *)
(* deactivated or removed, with and without instructions of the caller.    *)
(***************************************************************************)
\* The length of a revision of the 'main' prompt, created after the seeded one.
RevisedPromptLen == MainPromptLen + 1

RevisedPrompt(active) ==
    [prompt_key |-> "main", prompt_len |-> RevisedPromptLen, is_active |-> active]

PromptStores ==
    { SeededPrompts(TRUE), SeededPrompts(FALSE),
      SeededPrompts(TRUE) \o <<RevisedPrompt(TRUE)>>,
      SeededPrompts(TRUE) \o <<RevisedPrompt(FALSE)>>,
      SeededPrompts(FALSE) \o <<RevisedPrompt(TRUE)>>,
      SeededPrompts(FALSE) \o <<RevisedPrompt(FALSE)>>,
      Tail(SeededPrompts(TRUE)) }

PromptRequests ==
    { GenerateRequest("u1", input, "quick", 0, "openai", "gpt-4o", InlineKey, sysLen) :
        input \in {UnnamedInput, NamedInput}, sysLen \in {0, 1, 40} }

InitPrompt ==
    /\ users = {}
    /\ api_keys = <<>>
    /\ prds = <<>>
    /\ sections = <<>>
    /\ generation_logs = <<>>
    /\ system_prompts \in PromptStores
    /\ rnd = 0
    /\ ops = 0
    /\ inv = [p \in Slots |-> Idle]
    /\ maxOps = MaxPromptOps

NextPrompt ==
    \E p \in Slots :
        \/ \E req \in PromptRequests : StartGenerate(p, req)
        \/ GenerateSteps(p, VaultCompletions, VaultCodenames)
        \/ Return(p)

SpecPrompt == InitPrompt /\ [][NextPrompt]_vars

(***************************************************************************)
(* Properties of the prompt resolution (SpecPrompt).                       *)
(***************************************************************************)
\* The places of the active rows with key 'main', in order of creation.
ActiveMainPlaces ==
    { k \in 1..Len(system_prompts) :
        system_prompts[k].prompt_key = "main" /\ system_prompts[k].is_active }

\* The invocation in slot p is a generate that is past its prompt resolution.
PromptResolved(p) ==
    inv[p].op = "generate" /\ inv[p].pc \notin {"upsertUser", "resolveKey", "prompt"}

\* C25: a generate that is past its prompt resolution goes on with the
\* caller's system instructions when there are some, whatever the store
\* holds; else with the active 'main' prompt created last; and when there is
\* none it has failed with an internal error and made no outbound call.
C25_PromptResolution ==
    \A p \in Slots :
        PromptResolved(p) =>
            LET req == inv[p].req
                failed == inv[p].pc = "done" /\ inv[p].calls = <<>>
            IN  IF req.systemInstructionsLen > 0
                THEN /\ ~failed
                     /\ inv[p].loc.promptSrc = "caller"
                     /\ inv[p].loc.promptLen = req.systemInstructionsLen
                ELSE IF ActiveMainPlaces = {}
                THEN /\ failed
                     /\ inv[p].result = Raised(APIError("internal", <<"System prompt not found">>))
                ELSE /\ ~failed
                     /\ inv[p].loc.promptSrc = "stored"
                     /\ \E k \in ActiveMainPlaces :
                          /\ \A j \in ActiveMainPlaces : j <= k
                          /\ inv[p].loc.promptLen = system_prompts[k].prompt_len

\* A generation went on with the revised 'main' prompt although the seeded
\* one is active too, and one with the caller's instructions although the
\* store holds no 'main' prompt.
C25_Witness ==
    \E p \in Slots :
        /\ PromptResolved(p)
        /\ inv[p].calls # <<>>
        /\ \/ /\ Cardinality(ActiveMainPlaces) = 2
              /\ inv[p].loc.promptSrc = "stored"
              /\ inv[p].loc.promptLen = RevisedPromptLen
           \/ /\ ActiveMainPlaces = {}
              /\ inv[p].loc.promptSrc = "caller"
              /\ inv[p].result.status = "ok"

(***************************************************************************)
(* Properties of the completion step of generate (Spec).                   *)
(***************************************************************************)
\* The invocation in slot p is a generate whose provider, model and prompt
\* passed the checks and that left callAI, by return or by throw.
LeftCallAI(p) ==
    /\ inv[p].op = "generate"
    /\ inv[p].pc \in {"catch", "codename", "insertPrd", "insertSection", "logSuccess"}

\* C26: a generate for a registered provider and a model that passed the
\* model validation has, once it left callAI, issued exactly one completion
\* call.
C26_EveryValidatedModelIsCalled ==
    \A p \in Slots : LeftCallAI(p) => Len(CompletionCalls(p)) = 1

(***************************************************************************)
(* Properties of the generation log (Spec).                                *)
(***************************************************************************)
\* The invocation in slot p is a generate that entered the try block.
ReachedCompletion(p) == inv[p].op = "generate" /\ inv[p].loc.promptSrc # "none"

C28_RaisedLeavesNoRows ==
    \A p \in Slots :
        inv[p].op = "generate" /\ inv[p].pc = "done" /\ inv[p].result.status = "error" =>
            /\ WrittenBy(prds, inv[p].att) = <<>>
            /\ WrittenBy(sections, inv[p].att) = <<>>

(***************************************************************************)
(* Properties of the returned file name (SpecNaming).                      *)
(***************************************************************************)
\* C29: the file name a successful generate returns is a non-empty stem
\* followed by '-prd.md', whichever way it was derived.
C29_FilenameHasStem ==
    \A p \in Slots :
        inv[p].op = "generate" /\ inv[p].result.status = "ok" =>
            LET filename == inv[p].result.value.filename
                stemLen == Len(filename) - Len(PrdSuffix)
            IN  /\ stemLen > 0
                /\ SubSeq(filename, stemLen + 1, Len(filename)) = PrdSuffix

(***************************************************************************)
(* ModelSelector.tsx within QuickGenerate.tsx.  The component is activity  *)
(* 0 of inv: its loc holds the state of the two components that the        *)
(* selector reads and writes.  The listProviderModels requests it has in   *)
(* flight are the activities of RequestSlots, served by the handler above. *)
(***************************************************************************)
Selector == 0

RequestSlots == {1, 2}

\* useState('') / useState(null) / useState('idle')
SelectorState ==
    [ selectedProvider |-> "", selectedModel |-> "", apiKey |-> <<>>,
      debouncedApiKey |-> <<>>, fetchedModels |-> None,
      validationStatus |-> "idle", connectionError |-> <<>> ]

Mounted(state) ==
    [ op |-> "ModelSelector", pc |-> "mounted", att |-> 0, req |-> <<>>,
      loc |-> state, calls |-> <<>>, result |-> Pending ]

\* useEffect(..., [selectedProvider, onModelsFetched, onModelChange])
ResetOnProvider(state) ==
    [ state EXCEPT !.fetchedModels = None, !.selectedModel = "",
                   !.validationStatus = "idle", !.connectionError = <<>> ]

\* handleFetchModels is called by the effect on [debouncedApiKey,
\* selectedProvider, handleFetchModels], and sends a request.
FetchDue(state) ==
    /\ state.debouncedApiKey # <<>> /\ state.selectedProvider # ""
    /\ state.apiKey # <<>>

\* handleFetchModels up to its await.
Fetching(state) ==
    [ state EXCEPT !.validationStatus = "loading", !.connectionError = <<>>,
                   !.fetchedModels = None ]

\* The selector's state becomes "state" and its effects run: when a fetch is
\* due, request slot r takes the call of listProviderModels.
Render(state) ==
    IF FetchDue(state)
    THEN \E r \in RequestSlots :
            /\ inv[r].op = "idle"
            /\ ops < maxOps
            /\ ops' = ops + 1
            /\ inv' = [inv EXCEPT
                         ![Selector].loc = Fetching(state),
                         ![r] = [ op |-> "listProviderModels", pc |-> "fetchModels",
                                  att |-> ops + 1,
                                  req |-> ProviderRequest(state.selectedProvider, state.apiKey),
                                  loc |-> <<>>, calls |-> <<>>, result |-> Pending ]]
    ELSE /\ inv' = [inv EXCEPT ![Selector].loc = state]
         /\ UNCHANGED ops

\* <Select value={selectedProvider} onValueChange={onProviderChange}>
SelectProvider(provider) ==
    LET state == inv[Selector].loc
    IN  /\ provider # state.selectedProvider
        /\ Render(ResetOnProvider([state EXCEPT !.selectedProvider = provider]))
        /\ UNCHANGED <<tables, rnd, maxOps>>

\* <Input value={apiKey} onChange={(e) => onApiKeyChange(e.target.value)}
\*        disabled={!selectedProvider}>
TypeApiKey(apiKey) ==
    LET state == inv[Selector].loc
    IN  /\ state.selectedProvider # ""
        /\ apiKey # state.apiKey
        /\ Render([state EXCEPT !.apiKey = apiKey])
        /\ UNCHANGED <<tables, rnd, maxOps>>

\* useDebounce(apiKey, 1000): the timer set by the last change of apiKey fires.
DebounceElapsed ==
    LET state == inv[Selector].loc
    IN  /\ state.debouncedApiKey # state.apiKey
        /\ Render([state EXCEPT !.debouncedApiKey = state.apiKey])
        /\ UNCHANGED <<tables, rnd, maxOps>>

\* handleFetchModels after its await: the try block's rest, or the catch.
FetchSettled(r) ==
    LET state == inv[Selector].loc
        outcome == inv[r].result
    IN  /\ At(r, "listProviderModels", "done")
        /\ inv' = [inv EXCEPT
                     ![r] = Idle,
                     ![Selector].loc =
                        IF outcome.status = "ok"
                        THEN [ state EXCEPT
                                 !.fetchedModels = Some(outcome.value),
                                 !.selectedModel = IF Len(outcome.value) > 0
                                                   THEN outcome.value[1].name ELSE @,
                                 !.validationStatus = "success" ]
                        ELSE [ state EXCEPT !.connectionError = outcome.err.msg,
                                            !.validationStatus = "error" ]]
        /\ UNCHANGED <<tables, rnd, ops, maxOps>>

(***************************************************************************)
(* SpecSelector: the user changes provider and key while requests are in   *)
(* flight.                                                                 *)
(***************************************************************************)
SelectorProviders == {"openai", "deepseek"}

RotatedKey == <<"s", "k", "-", "z">>

SelectorKeys == {<<>>, InlineKey, RotatedKey}

\* What the model-list endpoints answer: the models of the provider asked,
\* or a refusal of the key.
SelectorResponses ==
    { ModelList(<< [id |-> "gpt-4o", context_length |-> None],
                   [id |-> "deepseek-chat", context_length |-> None],
                   [id |-> "deepseek-coder", context_length |-> None] >>),
      HttpError(401, "Incorrect API key provided", "message") }

InitSelector ==
    /\ InitTables
    /\ inv = [a \in {Selector} \cup RequestSlots |->
                IF a = Selector THEN Mounted(SelectorState) ELSE Idle]
    /\ maxOps = MaxSelectorOps

NextSelector ==
    \/ \E provider \in SelectorProviders : SelectProvider(provider)
    \/ \E apiKey \in SelectorKeys : TypeApiKey(apiKey)
    \/ DebounceElapsed
    \/ \E r \in RequestSlots : ListFetchModels(r, SelectorResponses)
    \/ \E r \in RequestSlots : FetchSettled(r)

SpecSelector == InitSelector /\ [][NextSelector]_vars

(***************************************************************************)
(* Properties of the model selector (SpecSelector).                        *)
(***************************************************************************)
\* The request in slot r asks for the provider and with the key that the
\* selector now shows.
Current(r) ==
    inv[r].req = ProviderRequest(inv[Selector].loc.selectedProvider,
                                 inv[Selector].loc.apiKey)

\* C30: the response of a request changes the fetched models, the selected
\* model or the validation status only when the request is the one for the
\* provider and key now selected; and the models shown are always models of
\* the selected provider.
C30_SupersededResponseNeverApplied ==
    [][ /\ \A r \in RequestSlots :
             At(r, "listProviderModels", "done") /\ inv'[r].op = "idle" /\ ~Current(r)
                => inv'[Selector].loc = inv[Selector].loc
        /\ LET shown == inv'[Selector].loc
           IN  shown.fetchedModels # None =>
                 \A k \in 1..Len(shown.fetchedModels[1]) :
                    \E j \in 1..Len(AI_PROVIDERS[shown.selectedProvider].models) :
                       shown.fetchedModels[1][k] = AI_PROVIDERS[shown.selectedProvider].models[j]
      ]_vars

====
